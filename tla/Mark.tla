-------------------------------- MODULE Mark --------------------------------
(***************************************************************************)
(* The mark phase of the collector and the program that runs beside it     *)
(* (ccclib/src/variable.cpp 365-658, push.cpp, array.cpp).                 *)
(*                                                                         *)
(* vartab_mark takes every assign lock and both table locks, shades what   *)
(* the stacks reach and then marks: by default with those locks held, with *)
(* CCC_MARKSYNC=enabled after giving them back and with mark_phase set,    *)
(* which turns on the write barrier of the program (valuecopy and          *)
(* operator= shade what they store); in the end mark() finishes with the   *)
(* locks held.  A thread does not stop: it waits only when it needs one of *)
(* the locks, and pop, aadd, asize, ains, adel and blkenv need none.       *)
(*                                                                         *)
(* An array, object or block is its set of elements, the position of an    *)
(* element does not matter here.  A vref holds at most one value and is    *)
(* never held by another one.  Where an operation runs under a lock that   *)
(* the marking takes, too, it is one step.  What a slot of the tables goes *)
(* through is the subject of module VarTab; here it is in use or free.     *)
(***************************************************************************)
EXTENDS Integers, Sequences

CONSTANTS
  Mutator,      (* the threads of the program                              *)
  Obj,          (* arrays, objects and blocks                              *)
  Leaf,         (* strings and binaries                                    *)
  Ref,          (* variables captured by reference (vref)                  *)
  NIL,          (* a value without an oref, and no thread, no object       *)
  Marksync,     (* CCC_MARKSYNC=enabled                                    *)
  Ops,          (* which of AllOps the program uses                        *)
  First,        (* an array all threads share in the beginning             *)
  DEPTH         (* bound on the depth of the stacks                        *)

AllOps == {"push", "pop", "index", "store", "local", "assign",
           "new", "ref", "aadd", "remove", "blkenv"}

Node == Obj \cup Leaf \cup Ref
Value == Node \cup {NIL}

ASSUME NodeAssumption == /\ Obj \cap Leaf = {}
                         /\ Obj \cap Ref = {}
                         /\ Leaf \cap Ref = {}
                         /\ NIL \notin Node
                         /\ NIL \notin Mutator
                         /\ First \in Obj
ASSUME OpsAssumption  == Ops \subseteq AllOps
ASSUME SyncAssumption == Marksync \in BOOLEAN
ASSUME DepthAssumption == DEPTH \in Nat \ {0}

VARIABLES
  inuse,        (* the nodes that are not on a free list                   *)
  holds,        (* elements of an array, value of a vref                   *)
  color,        (* relative to gc_count: white <, black =, gray >          *)
  mark_stack,   (* gray objects to visit; their order does not matter      *)
  mark_phase,   (* the write barrier is on                                 *)
  stack,        (* the stack of each thread                                *)
  pc,           (* the operation a thread is in the middle of              *)
  base,         (* its base pointer, an index of the stack                 *)
  gc,           (* where the collector is                                  *)
  toscan,       (* threads whose stacks are not scanned yet                *)
  td,           (* the thread whose stack is being scanned                 *)
  sp,           (* the next slot to scan in it                             *)
  cur,          (* the object mark_lk is visiting, with its mark lock held *)
  todo          (* its elements not shaded yet                             *)

heap == <<inuse, holds>>
marks == <<color, mark_stack>>
program == <<stack, pc, base>>
scan == <<toscan, td, sp>>
visit == <<cur, todo>>
vars == <<heap, marks, mark_phase, program, gc, scan, visit>>

TypeOK ==
  /\ inuse \in SUBSET Node
  /\ holds \in [Node -> SUBSET Node]
  /\ color \in [Node -> {"white", "gray", "black"}]
  /\ mark_stack \in SUBSET Obj
  /\ mark_phase \in BOOLEAN
  /\ stack \in [Mutator -> Seq(Value)]
  /\ pc \in [Mutator -> {"run", "ret", "makeref", "setref",
                         "copied", "shade", "added", "moved"}]
  /\ base \in [Mutator -> Nat]
  /\ gc \in {"idle", "scan", "sync", "relock", "final", "sweep"}
  /\ toscan \in SUBSET Mutator
  /\ td \in Mutator \cup {NIL}
  /\ sp \in Nat
  /\ cur \in Obj \cup {NIL}
  /\ todo \in SUBSET Node

(* The main thread has passed an array to the threads it created.           *)
Init ==
  /\ inuse = {First}
  /\ holds = [x \in Node |-> {}]
  /\ color = [x \in Node |-> IF x = First THEN "black" ELSE "white"]
  /\ mark_stack = {}
  /\ mark_phase = FALSE
  /\ stack = [m \in Mutator |-> <<First>>]
  /\ pc = [m \in Mutator |-> "run"]
  /\ base = [m \in Mutator |-> 0]
  /\ gc = "idle"
  /\ toscan = {} /\ td = NIL /\ sp = 0
  /\ cur = NIL /\ todo = {}

-----------------------------------------------------------------------------
(* vartab_shade of every value of S: a white object becomes gray and goes   *)
(* on the mark stack, a string becomes black, a vref becomes black and its  *)
(* value is shaded.                                                         *)

Deref(S) == S \cup UNION {holds[r] : r \in S \cap Ref}

ShadedColor(S) ==
  [x \in Node |-> IF x \in Obj \cap Deref(S) /\ color[x] = "white" THEN "gray"
                  ELSE IF x \in (Leaf \cup Ref) \cap Deref(S) THEN "black"
                  ELSE color[x]]

ShadedStack(S) ==
  mark_stack \cup {x \in Obj \cap Deref(S) : color[x] = "white"}

Shade(S) == color' = ShadedColor(S) /\ mark_stack' = ShadedStack(S)

(* Mutant of Barrier: what the program stores is not shaded.               *)
BarrierNone(S) == UNCHANGED marks

(* The barrier of valuecopy and operator=.                                  *)
Barrier(S) == IF mark_phase THEN Shade(S) ELSE UNCHANGED marks

-----------------------------------------------------------------------------
(* Locks.                                                                   *)

(* assign_lock(...) and the table locks do not wait for the collector.      *)
Unlocked == gc \notin {"scan", "final"}

(* mark_lock(o).  mark() holds it for one step only.                        *)
MarkFree(o) ==
  /\ cur # o
  /\ \A m \in Mutator :
       pc[m] \in {"copied", "shade"} => stack[m][Len(stack[m])-1] # o

-----------------------------------------------------------------------------
(* The program.                                                             *)

Depth(m) == Len(stack[m])
Top(m) == stack[m][Depth(m)]
Top2(m) == stack[m][Depth(m)-1]
Popped(m, k) == SubSeq(stack[m], 1, Depth(m)-k)
Slots(m) == {stack[m][i] : i \in 1..Depth(m)}
Singleton(v) == {v} \ {NIL}

Uses(m, op) == op \in Ops /\ pc[m] = "run"

(* What PUSH, DUP (a local variable), push_symbol (a variable that may be a *)
(* reference) and push_blkenv (a variable of a block) can load.             *)
Loads(m) ==
  LET refs == Ref \cap (Slots(m) \cup UNION {holds[b] : b \in Slots(m) \cap Obj})
  IN Slots(m) \cup UNION {holds[r] : r \in refs}

Push(m) ==
  /\ Uses(m, "push") /\ Unlocked
  /\ Depth(m) < DEPTH
  /\ \E v \in Loads(m) : stack' = [stack EXCEPT ![m] = Append(@, v)]
  /\ UNCHANGED <<heap, marks, mark_phase, pc, base, gc, scan, visit>>

(* DUP and PUSH of a local variable: what they load is on the stack.        *)
PushLocal(m) ==
  /\ Uses(m, "local") /\ Unlocked
  /\ Depth(m) < DEPTH
  /\ \E v \in Slots(m) : stack' = [stack EXCEPT ![m] = Append(@, v)]
  /\ UNCHANGED <<heap, marks, mark_phase, pc, base, gc, scan, visit>>

Pop(m) ==
  /\ Uses(m, "pop")
  /\ Depth(m) > 0
  /\ stack' = [stack EXCEPT ![m] = Popped(m, 1)]
  /\ UNCHANGED <<heap, marks, mark_phase, pc, base, gc, scan, visit>>

(* idxr: the array on top of the stack is replaced by an element.           *)
Index(m) ==
  /\ Uses(m, "index") /\ Unlocked
  /\ Depth(m) > 0 /\ Top(m) \in Obj
  /\ \E v \in (holds[Top(m)] \ Ref) \cup {NIL} :
       /\ stack' = [stack EXCEPT ![m][Depth(m)] = v]
       /\ Barrier(Singleton(v))
  /\ UNCHANGED <<heap, mark_phase, pc, base, gc, scan, visit>>

(* assign2: TOP2 overwrites an element of the array on top of the stack.    *)
Store(m) ==
  /\ Uses(m, "store") /\ Unlocked
  /\ Depth(m) > 1 /\ Top(m) \in Obj /\ Top2(m) \notin Ref
  /\ \E old \in {{}} \cup {{x} : x \in holds[Top(m)] \ Ref} :
       holds' = [holds EXCEPT ![Top(m)] = (@ \ old) \cup Singleton(Top2(m))]
  /\ stack' = [stack EXCEPT ![m] = Popped(m, 1)]
  /\ Barrier(Singleton(Top2(m)))
  /\ UNCHANGED <<inuse, mark_phase, pc, base, gc, scan, visit>>

(* assign: TOP overwrites the variable behind a reference.                  *)
Assign(m) ==
  /\ Uses(m, "assign") /\ Unlocked
  /\ Depth(m) > 0 /\ Top(m) \notin Ref
  /\ \E r \in Ref \cap (Slots(m) \cup UNION {holds[b] : b \in Slots(m) \cap Obj}) :
       holds' = [holds EXCEPT ![r] = Singleton(Top(m))]
  /\ Barrier(Singleton(Top(m)))
  /\ UNCHANGED <<inuse, mark_phase, program, gc, scan, visit>>

(* array() and block(): the top k values are copied into the new object,    *)
(* which oref_new pushes; then *base=*TOP().                                *)
New(m) ==
  /\ Uses(m, "new") /\ Unlocked
  /\ Depth(m) < DEPTH
  /\ \E o \in Obj \ inuse, k \in 0..Depth(m) :
       /\ inuse' = inuse \cup {o}
       /\ holds' = [holds EXCEPT
            ![o] = {stack[m][i] : i \in Depth(m)-k+1..Depth(m)} \ {NIL}]
       /\ color' = [color EXCEPT ![o] = "black"]
       /\ stack' = [stack EXCEPT ![m] = Append(@, o)]
       /\ base' = [base EXCEPT ![m] = Depth(m)-k+1]
  /\ pc' = [pc EXCEPT ![m] = "ret"]
  /\ UNCHANGED <<mark_stack, mark_phase, gc, scan, visit>>

(* Strings and binaries: oref_new is all there is.                          *)
NewLeaf(m) ==
  /\ Uses(m, "new") /\ Unlocked
  /\ Depth(m) < DEPTH
  /\ \E s \in Leaf \ inuse :
       /\ inuse' = inuse \cup {s}
       /\ color' = [color EXCEPT ![s] = "black"]
       /\ stack' = [stack EXCEPT ![m] = Append(@, s)]
  /\ UNCHANGED <<holds, mark_stack, mark_phase, pc, base, gc, scan, visit>>

(* *base=*TOP(); stack=base+1                                               *)
Ret(m) ==
  /\ pc[m] = "ret" /\ Unlocked
  /\ stack' = [stack EXCEPT ![m] = Append(SubSeq(@, 1, base[m]-1), Top(m))]
  /\ Barrier(Singleton(Top(m)))
  /\ pc' = [pc EXCEPT ![m] = "run"]
  /\ base' = [base EXCEPT ![m] = 0]
  /\ UNCHANGED <<heap, mark_phase, gc, scan, visit>>

-----------------------------------------------------------------------------
(* push_symbol_ref: PUSH(v), and unless v is a reference, vref_new and      *)
(* *v=*TOP().                                                               *)

PushRef(m) ==
  /\ Uses(m, "ref") /\ Unlocked
  /\ Depth(m) < DEPTH
  /\ \E i \in 1..Depth(m) :
       /\ stack' = [stack EXCEPT ![m] = Append(@, stack[m][i])]
       /\ IF stack[m][i] \in Ref
          THEN UNCHANGED <<pc, base>>
          ELSE /\ pc' = [pc EXCEPT ![m] = "makeref"]
               /\ base' = [base EXCEPT ![m] = i]
  /\ UNCHANGED <<heap, marks, mark_phase, gc, scan, visit>>

MakeRef(m) ==
  /\ pc[m] = "makeref" /\ Unlocked
  /\ \E r \in Ref \ inuse :
       /\ inuse' = inuse \cup {r}
       /\ holds' = [holds EXCEPT ![r] = Singleton(Top(m))]
       /\ color' = [color EXCEPT ![r] = "black"]
       /\ stack' = [stack EXCEPT ![m][Depth(m)] = r]
  /\ pc' = [pc EXCEPT ![m] = "setref"]
  /\ UNCHANGED <<mark_stack, mark_phase, base, gc, scan, visit>>

SetRef(m) ==
  /\ pc[m] = "setref" /\ Unlocked
  /\ stack' = [stack EXCEPT ![m][base[m]] = Top(m)]
  /\ Barrier(Singleton(Top(m)))
  /\ pc' = [pc EXCEPT ![m] = "run"]
  /\ base' = [base EXCEPT ![m] = 0]
  /\ UNCHANGED <<heap, mark_phase, gc, scan, visit>>

-----------------------------------------------------------------------------
(* aadd: the element is stored under the mark lock of the array, and        *)
(* valuecopy looks at mark_phase without an assign lock.                    *)

Aadd(m) ==
  /\ Uses(m, "aadd")
  /\ Depth(m) > 1 /\ Top2(m) \in Obj /\ Top(m) \notin Ref
  /\ MarkFree(Top2(m))
  /\ holds' = [holds EXCEPT ![Top2(m)] = @ \cup Singleton(Top(m))]
  /\ pc' = [pc EXCEPT ![m] = "copied"]
  /\ UNCHANGED <<inuse, marks, mark_phase, stack, base, gc, scan, visit>>

AaddTest(m) ==
  /\ pc[m] = "copied"
  /\ pc' = [pc EXCEPT ![m] = IF mark_phase THEN "shade" ELSE "added"]
  /\ UNCHANGED <<heap, marks, mark_phase, stack, base, gc, scan, visit>>

AaddShade(m) ==
  /\ pc[m] = "shade"
  /\ Shade(Singleton(Top(m)))
  /\ pc' = [pc EXCEPT ![m] = "added"]
  /\ UNCHANGED <<heap, mark_phase, stack, base, gc, scan, visit>>

(* *base=*v; stack=base+1                                                   *)
AaddRet(m) ==
  /\ pc[m] = "added" /\ Unlocked
  /\ stack' = [stack EXCEPT ![m] = Append(Popped(m, 2), Top(m))]
  /\ Barrier(Singleton(Top(m)))
  /\ pc' = [pc EXCEPT ![m] = "run"]
  /\ UNCHANGED <<heap, mark_phase, base, gc, scan, visit>>

(* asize, ains, adel: an element is lost, under the mark lock.              *)
Remove(m) ==
  /\ Uses(m, "remove")
  /\ Depth(m) > 0 /\ Top(m) \in Obj
  /\ MarkFree(Top(m))
  /\ \E x \in holds[Top(m)] \ Ref : holds' = [holds EXCEPT ![Top(m)] = @ \ {x}]
  /\ UNCHANGED <<inuse, marks, mark_phase, program, gc, scan, visit>>

(* blkenv(blk,arr): the block on the stack gets the oref of the array above *)
(* it, and pop() follows; no lock is taken.                                 *)
Blkenv(m) ==
  /\ Uses(m, "blkenv")
  /\ Depth(m) > 1 /\ Top2(m) \in Obj /\ Top(m) \in Obj
  /\ stack' = [stack EXCEPT ![m][Depth(m)-1] = Top(m)]
  /\ pc' = [pc EXCEPT ![m] = "moved"]
  /\ UNCHANGED <<heap, marks, mark_phase, base, gc, scan, visit>>

BlkenvPop(m) ==
  /\ pc[m] = "moved"
  /\ stack' = [stack EXCEPT ![m] = Popped(m, 1)]
  /\ pc' = [pc EXCEPT ![m] = "run"]
  /\ UNCHANGED <<heap, marks, mark_phase, base, gc, scan, visit>>

-----------------------------------------------------------------------------
(* The collector.                                                           *)

(* assign_lock(); oreftab_lock(); vreftab_lock(); ++gc_count;               *)
(* mark_stack_ptr=mark_stack: what was black is white, and what was left    *)
(* gray is black.                                                           *)
Start ==
  /\ gc = "idle" /\ gc' = "scan"
  /\ color' = [x \in Node |-> IF color[x] = "gray" THEN "black" ELSE "white"]
  /\ mark_stack' = {}
  /\ toscan' = Mutator
  /\ UNCHANGED <<heap, mark_phase, program, td, sp, visit>>

ScanThread ==
  /\ gc = "scan" /\ td = NIL
  /\ \E m \in toscan : td' = m /\ toscan' = toscan \ {m}
  /\ sp' = 1
  /\ UNCHANGED <<heap, marks, mark_phase, program, gc, visit>>

(* for( VALUE *sp=td->_stackbuf; sp<td->_stack; sp++ ) vartab_shade(sp)     *)
ScanSlot ==
  /\ gc = "scan" /\ td # NIL
  /\ IF sp <= Len(stack[td])
     THEN /\ Shade(Singleton(stack[td][sp]))
          /\ sp' = sp+1
          /\ UNCHANGED td
     ELSE /\ td' = NIL /\ sp' = 0
          /\ UNCHANGED marks
  /\ UNCHANGED <<heap, mark_phase, program, gc, toscan, visit>>

(* Mutant of ScanEnd: the threads not scanned yet are forgotten.            *)
ScanEndHasty ==
  /\ gc = "scan" /\ td = NIL
  /\ mark_phase' = Marksync
  /\ gc' = IF Marksync THEN "sync" ELSE "final"
  /\ UNCHANGED <<heap, marks, program, scan, visit>>

ScanEnd ==
  /\ gc = "scan" /\ td = NIL /\ toscan = {}
  /\ mark_phase' = Marksync
  /\ gc' = IF Marksync THEN "sync" ELSE "final"
  /\ UNCHANGED <<heap, marks, program, scan, visit>>

(* mark_lk: mark_pop, mark_lock(o), BLACK; its elements one by one, each    *)
(* under its assign lock (vartab_shade_lk); mark_unlock.                    *)
SyncPop ==
  /\ gc = "sync" /\ cur = NIL
  /\ \E o \in mark_stack :
       /\ MarkFree(o)
       /\ mark_stack' = mark_stack \ {o}
       /\ color' = [color EXCEPT ![o] = "black"]
       /\ cur' = o
       /\ todo' = holds[o]
  /\ UNCHANGED <<heap, mark_phase, program, gc, scan>>

SyncShade ==
  /\ gc = "sync" /\ cur # NIL
  /\ \E x \in todo :
       /\ todo' = todo \ {x}
       /\ IF x \in holds[cur] THEN Shade({x}) ELSE UNCHANGED marks
  /\ UNCHANGED <<heap, mark_phase, program, gc, scan, cur>>

SyncUnlock ==
  /\ gc = "sync" /\ cur # NIL /\ todo = {}
  /\ cur' = NIL
  /\ UNCHANGED <<heap, marks, mark_phase, program, gc, scan, todo>>

SyncEmpty ==
  /\ gc = "sync" /\ cur = NIL /\ mark_stack = {}
  /\ gc' = "relock"
  /\ UNCHANGED <<heap, marks, mark_phase, program, scan, visit>>

(* Mutant of Relock: mark() is not called again.                            *)
RelockEnds ==
  /\ gc = "relock" /\ gc' = "sweep"
  /\ mark_phase' = FALSE
  /\ UNCHANGED <<heap, marks, program, scan, visit>>

(* The locks are taken again; mark_phase=0.                                 *)
Relock ==
  /\ gc = "relock" /\ gc' = "final"
  /\ mark_phase' = FALSE
  /\ UNCHANGED <<heap, marks, program, scan, visit>>

(* mark(): one object.                                                      *)
FinalMark ==
  /\ gc = "final"
  /\ \E o \in mark_stack :
       /\ MarkFree(o)
       /\ color' = [ShadedColor(holds[o]) EXCEPT ![o] = "black"]
       /\ mark_stack' = ShadedStack(holds[o]) \ {o}
  /\ UNCHANGED <<heap, mark_phase, program, gc, scan, visit>>

FinalEnd ==
  /\ gc = "final" /\ mark_stack = {}
  /\ gc' = "sweep"
  /\ UNCHANGED <<heap, marks, mark_phase, program, scan, visit>>

(* sweep: the slots that are white go back to the free lists.               *)
Sweep ==
  /\ gc = "sweep" /\ gc' = "idle"
  /\ inuse' = {x \in inuse : color[x] # "white"}
  /\ holds' = [x \in Node |-> IF x \in inuse' THEN holds[x] ELSE {}]
  /\ UNCHANGED <<marks, mark_phase, program, scan, visit>>

-----------------------------------------------------------------------------
Operation(m) ==
  \/ Push(m) \/ PushLocal(m) \/ Pop(m) \/ Index(m) \/ Store(m) \/ Assign(m)
  \/ New(m) \/ NewLeaf(m) \/ Ret(m)
  \/ PushRef(m) \/ MakeRef(m) \/ SetRef(m)
  \/ Aadd(m) \/ AaddTest(m) \/ AaddShade(m) \/ AaddRet(m)
  \/ Remove(m) \/ Blkenv(m) \/ BlkenvPop(m)

Collector ==
  \/ Start \/ ScanThread \/ ScanSlot \/ ScanEnd
  \/ SyncPop \/ SyncShade \/ SyncUnlock \/ SyncEmpty \/ Relock
  \/ FinalMark \/ FinalEnd \/ Sweep

Next == Collector \/ \E m \in Mutator : Operation(m)

Spec == Init /\ [][Next]_vars

-----------------------------------------------------------------------------
(* What the stacks reach: the smallest set that holds their values and the  *)
(* elements of its members.                                                 *)

Roots == (UNION {Slots(m) : m \in Mutator}) \ {NIL}
Closed(S) == \A x \in S : holds[x] \subseteq S
Reachable ==
  {x \in Node : \A S \in SUBSET Node : Roots \subseteq S /\ Closed(S) => x \in S}

(* No object that a stack reaches, directly or through others, is freed.    *)
LiveKept == Reachable \subseteq inuse

(* When the sweep begins no object is gray: "amig el nem tunik minden GRAY  *)
(* oref" (variable.cpp:426).                                                *)
NoGrayLeft == gc = "sweep" => \A x \in Node : color[x] # "gray"

(* While the world is stopped, and afterwards until the sweep, nothing      *)
(* black holds something white.                                             *)
TriColor ==
  gc \in {"final", "sweep"} =>
    \A x \in inuse : color[x] = "black" =>
      \A y \in holds[x] : color[y] # "white"
=============================================================================
