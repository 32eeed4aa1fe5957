------------------------------- MODULE VarTab -------------------------------
(***************************************************************************)
(* The table of memory objects of the CCC runtime and its collector thread *)
(* (ccclib/src/variable.cpp).                                              *)
(*                                                                         *)
(* Every array, object, block and string of a CCC program is reached       *)
(* through a slot of the oref table, every variable shared by reference    *)
(* through a slot of the vref table.  The two tables work alike: the free  *)
(* slots form a list from onext to olast through their link fields, a slot *)
(* in use has link = -1, and olast itself is a dummy that is never handed  *)
(* out.  A mutator takes slots at the head (oref_new, vref_new) while the  *)
(* sweep of the collector appends at the tail, and the two do not exclude  *)
(* each other.  The module models one table; Kind says which.              *)
(*                                                                         *)
(* What the mutators hold is abstracted to the set of slots their stacks   *)
(* reach; module Mark models the object graph behind the stacks.           *)
(*                                                                         *)
(* A color is kept relative to gc_count: BLACK is color = gc_count, WHITE  *)
(* is color < gc_count, so ++gc_count turns every slot WHITE.              *)
(***************************************************************************)
EXTENDS Integers, FiniteSets

CONSTANTS
  Mutator,      (* the threads of the program                              *)
  NoOne,        (* owner of a mutex nobody holds                           *)
  Collector,    (* the collector thread                                    *)
  Kind,         (* "oref" or "vref": which of the two tables               *)
  SIZE,         (* OREF_SIZE or VREF_SIZE                                  *)
  LEVEL,        (* OREF_LEVEL or VREF_LEVEL                                *)
  WORD          (* 2^w for the w bits of the unsigned counter ofree        *)

ASSUME KindAssumption  == Kind \in {"oref", "vref"}
ASSUME SizeAssumption  == SIZE \in Nat \ {0}
ASSUME LevelAssumption == LEVEL \in 0..SIZE
ASSUME WordAssumption  == WORD \in Nat /\ WORD > SIZE
ASSUME NameAssumption  == /\ NoOne \notin Mutator
                          /\ Collector \notin Mutator
                          /\ NoOne # Collector

VARIABLES
  link,         (* oref[n].link: next free slot, -1 when in use            *)
  color,        (* oref[n].color, relative to gc_count                     *)
  onext,        (* head of the free list                                   *)
  olast,        (* tail of the free list                                   *)
  ofree,        (* number of free slots, modulo WORD                       *)
  tablock,      (* owner of sync_oreftab.mutex                             *)
  pc,           (* where each mutator is                                   *)
  new,          (* the slot a mutator is taking in oref_new                *)
  stack,        (* the slots each mutator's stack reaches                  *)
  age,          (* count vs gc_count in a mutator's forced __gc            *)
  gc,           (* where the collector is                                  *)
  scanned,      (* the mutators whose stacks vartab_mark has scanned       *)
  n,            (* loop variable of sweep                                  *)
  oinc          (* slots freed by this sweep                               *)

table == <<link, color, onext, olast, ofree>>
thread == <<pc, new, stack, age>>
collector == <<gc, scanned, n, oinc>>
vars == <<table, tablock, thread, collector>>

Slot == 0..SIZE-1
InUse == -1

TypeOK ==
  /\ link \in [Slot -> {InUse} \cup 0..SIZE]
  /\ color \in [Slot -> {"white", "black"}]
  /\ onext \in 0..SIZE
  /\ olast \in Slot
  /\ ofree \in 0..WORD-1
  /\ tablock \in Mutator \cup {NoOne, Collector}
  /\ pc \in [Mutator -> {"run", "lock", "test", "full", "towait", "waiting",
                         "waking", "color", "unlink", "push", "dec", "vdec",
                         "level", "gclock", "gctest", "gcwait"}]
  /\ new \in [Mutator -> Slot]
  /\ stack \in [Mutator -> SUBSET Slot]
  /\ age \in [Mutator -> {"same", "changed"}]
  /\ gc \in {"start", "wait", "woken", "timedout", "mark", "scan", "sweep",
             "link", "last", "inc", "force", "abort"}
  /\ scanned \in SUBSET Mutator
  /\ n \in 0..SIZE
  /\ oinc \in 0..SIZE

(* vartab_ini: every slot is free, the last one is the dummy. *)
Init ==
  /\ link = [i \in Slot |-> i+1]
  /\ color = [i \in Slot |-> "white"]
  /\ onext = 0
  /\ olast = SIZE-1
  /\ ofree = SIZE-1
  /\ tablock = NoOne
  /\ pc = [m \in Mutator |-> "run"]
  /\ new = [m \in Mutator |-> 0]
  /\ stack = [m \in Mutator |-> {}]
  /\ age = [m \in Mutator |-> "changed"]
  /\ gc = "start"
  /\ scanned = {}
  /\ n = 0
  /\ oinc = 0

-----------------------------------------------------------------------------
(* sync_gc: its mutex is free while the collector sits in sync_gc.wait().   *)
(* Mutators hold it only to signal, so lock, signal and unlock are one step *)
(* of theirs.                                                               *)

GcLockFree == gc \in {"start", "wait", "woken", "timedout"}

Woken == IF gc = "wait" THEN "woken" ELSE gc

(* sync_gc.lock_try, signal, lock_free: gives up when the collector works.  *)
(* Woken leaves gc alone when the mutex is taken.                           *)
TrySignal == gc' = Woken

Goto(m, from, to) == pc[m] = from /\ pc' = [pc EXCEPT ![m] = to]

(* sync_oreftab.signal(): one of the waiting mutators, if any, is woken.    *)
SignalTable ==
  LET waiters == {m \in Mutator : pc[m] = "waiting"}
  IN IF waiters = {}
     THEN UNCHANGED pc
     ELSE \E m \in waiters : pc' = [pc EXCEPT ![m] = "waking"]

-----------------------------------------------------------------------------
(* oref_new and vref_new.                                                   *)

Call(m) ==
  /\ Goto(m, "run", "lock")
  /\ UNCHANGED <<table, tablock, new, stack, age, collector>>

(* Mutant of Lock: the table is entered without waiting for its mutex.      *)
LockBarging(m) ==
  /\ pc[m] \in {"lock", "waking"}
  /\ tablock' = m
  /\ pc' = [pc EXCEPT ![m] = "test"]
  /\ UNCHANGED <<table, new, stack, age, collector>>

Lock(m) ==
  /\ pc[m] \in {"lock", "waking"}
  /\ tablock = NoOne
  /\ tablock' = m
  /\ pc' = [pc EXCEPT ![m] = "test"]
  /\ UNCHANGED <<table, new, stack, age, collector>>

(* while( onext==sync_olast.read() )                                        *)
Test(m) ==
  /\ Goto(m, "test", IF onext = olast THEN "full" ELSE "color")
  /\ UNCHANGED <<table, tablock, new, stack, age, collector>>

(* Mutant of Kick: an exhausted table does not start the collector.         *)
KickSilent(m) ==
  /\ Goto(m, "full", "towait")
  /\ UNCHANGED <<table, tablock, new, stack, age, collector>>

Kick(m) ==
  /\ Goto(m, "full", "towait")
  /\ TrySignal
  /\ UNCHANGED <<table, tablock, new, stack, age, scanned, n, oinc>>

(* sync_oreftab.wait(100): the mutex is released while waiting.             *)
Wait(m) ==
  /\ Goto(m, "towait", "waiting")
  /\ tablock' = NoOne
  /\ UNCHANGED <<table, new, stack, age, collector>>

WaitTimeout(m) ==
  /\ Goto(m, "waiting", "waking")
  /\ UNCHANGED <<table, tablock, new, stack, age, collector>>

(* mutx_sweep.lock(o): excludes the sweep while it looks at the same slot.  *)
SweepHolds(s) == gc \in {"link", "last", "inc"} /\ n = s
TakerHolds(s) == \E m \in Mutator : pc[m] = "unlink" /\ new[m] = s

(* Mutant of Color: a new object keeps the color its slot had before.       *)
ColorLeft(m) ==
  /\ Goto(m, "color", "unlink")
  /\ ~SweepHolds(onext)
  /\ new' = [new EXCEPT ![m] = onext]
  /\ UNCHANGED <<table, tablock, stack, age, collector>>

Color(m) ==
  /\ Goto(m, "color", "unlink")
  /\ ~SweepHolds(onext)
  /\ new' = [new EXCEPT ![m] = onext]
  /\ color' = [color EXCEPT ![onext] = "black"]
  /\ UNCHANGED <<link, onext, olast, ofree, tablock, stack, age, collector>>

Unlink(m) ==
  /\ Goto(m, "unlink", "push")
  /\ onext' = link[new[m]]
  /\ link' = [link EXCEPT ![new[m]] = InUse]
  /\ UNCHANGED <<color, olast, ofree, tablock, new, stack, age, collector>>

(* The new slot becomes reachable while the table is still locked.          *)
Push(m) ==
  /\ Goto(m, "push", "dec")
  /\ stack' = [stack EXCEPT ![m] = @ \cup {new[m]}]
  /\ UNCHANGED <<table, tablock, new, age, collector>>

(* Mutant of Decremented: the counter is signed.                            *)
DecrementedSigned == ofree - 1

Decremented == (ofree + WORD - 1) % WORD

(* oref_new decrements the counter before it unlocks the table.             *)
OrefDec(m) ==
  /\ Kind = "oref"
  /\ Goto(m, "dec", "level")
  /\ ofree' = Decremented
  /\ tablock' = NoOne
  /\ UNCHANGED <<link, color, onext, olast, new, stack, age, collector>>

(* vref_new unlocks the table first.                                        *)
VrefUnlock(m) ==
  /\ Kind = "vref"
  /\ Goto(m, "dec", "vdec")
  /\ tablock' = NoOne
  /\ UNCHANGED <<table, new, stack, age, collector>>

(* Mutant of VrefDec: the counter is not counted down.                      *)
VrefDecForgotten(m) ==
  /\ Goto(m, "vdec", "level")
  /\ UNCHANGED <<table, tablock, new, stack, age, collector>>

VrefDec(m) ==
  /\ Goto(m, "vdec", "level")
  /\ ofree' = Decremented
  /\ UNCHANGED <<link, color, onext, olast, tablock, new, stack, age, collector>>

Level(m) ==
  /\ Goto(m, "level", "run")
  /\ IF ofree < LEVEL THEN TrySignal ELSE UNCHANGED gc
  /\ UNCHANGED <<table, tablock, new, stack, age, scanned, n, oinc>>

-----------------------------------------------------------------------------
(* The program between two allocations.                                     *)

(* A value leaves the stack (pop, assignment of something else).            *)
Drop(m) ==
  /\ pc[m] = "run"
  /\ \E s \in stack[m] : stack' = [stack EXCEPT ![m] = @ \ {s}]
  /\ UNCHANGED <<table, tablock, pc, new, age, collector>>

(* PUSH of a value another thread reaches.  PUSH takes assign_lock(v), and  *)
(* vartab_mark holds all of those locks while it marks.                     *)
Copy(m) ==
  /\ pc[m] = "run"
  /\ gc # "scan"
  /\ \E k \in Mutator : \E s \in stack[k] :
       stack' = [stack EXCEPT ![m] = @ \cup {s}]
  /\ UNCHANGED <<table, tablock, pc, new, age, collector>>

(* __gc(0), and newValue, newChar, newBinary past the allocation limits.    *)
GcUnforced(m) ==
  /\ pc[m] = "run"
  /\ TrySignal
  /\ UNCHANGED <<table, tablock, thread, scanned, n, oinc>>

(* __gc(1): int count=gc_count, read without a lock.  age is "same" while   *)
(* count = gc_count.                                                        *)
GcForced(m) ==
  /\ Goto(m, "run", "gclock")
  /\ age' = [age EXCEPT ![m] = "same"]
  /\ UNCHANGED <<table, tablock, new, stack, collector>>

GcForcedSignal(m) ==
  /\ Goto(m, "gclock", "gctest")
  /\ GcLockFree
  /\ gc' = Woken
  /\ UNCHANGED <<table, tablock, new, stack, age, scanned, n, oinc>>

(* while( count==gc_count ) sync_gc_force.wait();                           *)
GcForcedTest(m) ==
  /\ Goto(m, "gctest", IF age[m] = "same" THEN "gcwait" ELSE "run")
  /\ UNCHANGED <<table, tablock, new, stack, age, collector>>

-----------------------------------------------------------------------------
(* vartab_collector, vartab_mark and sweep.                                 *)

CollectorStart ==
  /\ gc = "start" /\ gc' = "wait"
  /\ UNCHANGED <<table, tablock, thread, scanned, n, oinc>>

CollectorTimeout ==
  /\ gc = "wait" /\ gc' = "timedout"
  /\ UNCHANGED <<table, tablock, thread, scanned, n, oinc>>

(* After a signal the collector works; after a timeout only if enough was   *)
(* allocated, which the model leaves open.                                  *)
CollectorWake ==
  /\ \/ gc = "woken" /\ gc' = "mark"
     \/ gc = "timedout" /\ gc' \in {"mark", "force"}
  /\ UNCHANGED <<table, tablock, thread, scanned, n, oinc>>

(* assign_lock(); oreftab_lock(); vreftab_lock(); ++gc_count;               *)
MarkLock ==
  /\ gc = "mark" /\ gc' = "scan"
  /\ tablock = NoOne
  /\ tablock' = Collector
  /\ color' = [i \in Slot |-> "white"]
  /\ age' = [m \in Mutator |-> "changed"]
  /\ UNCHANGED <<link, onext, olast, ofree, pc, new, stack, scanned, n, oinc>>

MarkScan(m) ==
  /\ gc = "scan"
  /\ m \notin scanned
  /\ color' = [i \in Slot |-> IF i \in stack[m] THEN "black" ELSE color[i]]
  /\ scanned' = scanned \cup {m}
  /\ UNCHANGED <<link, onext, olast, ofree, tablock, thread, gc, n, oinc>>

MarkUnlock ==
  /\ gc = "scan" /\ gc' = "sweep"
  /\ scanned = Mutator
  /\ tablock' = NoOne
  /\ scanned' = {}
  /\ n' = 0
  /\ oinc' = 0
  /\ UNCHANGED <<table, thread>>

Keeps(s) == link[s] # InUse \/ s = olast \/ color[s] = "black"

SweepKeep ==
  /\ gc = "sweep" /\ n < SIZE
  /\ ~TakerHolds(n)
  /\ Keeps(n)
  /\ n' = n+1
  /\ UNCHANGED <<table, tablock, thread, gc, scanned, oinc>>

SweepFree ==
  /\ gc = "sweep" /\ n < SIZE
  /\ ~TakerHolds(n)
  /\ ~Keeps(n)
  /\ gc' = "link"
  /\ UNCHANGED <<table, tablock, thread, scanned, n, oinc>>

(* Mutant of SweepLink: the slot is linked to the tail, not the tail to it. *)
SweepLinkSwapped ==
  /\ gc = "link" /\ gc' = "last"
  /\ link' = [link EXCEPT ![n] = olast]
  /\ UNCHANGED <<color, onext, olast, ofree, tablock, thread, scanned, n, oinc>>

(* oref[olast].link=n                                                       *)
SweepLink ==
  /\ gc = "link" /\ gc' = "last"
  /\ link' = [link EXCEPT ![olast] = n]
  /\ UNCHANGED <<color, onext, olast, ofree, tablock, thread, scanned, n, oinc>>

(* sync_olast.write(n)                                                      *)
SweepLast ==
  /\ gc = "last" /\ gc' = "inc"
  /\ olast' = n
  /\ UNCHANGED <<link, color, onext, ofree, tablock, thread, scanned, n, oinc>>

(* sync_ofree.inc(), sync_oreftab.signal(), oinc++                          *)
SweepInc ==
  /\ gc = "inc" /\ gc' = "sweep"
  /\ ofree' = (ofree + 1) % WORD
  /\ SignalTable
  /\ oinc' = oinc + 1
  /\ n' = n + 1
  /\ UNCHANGED <<link, color, onext, olast, tablock, new, stack, age, scanned>>

(* Mutant of SweepEnd: it gives up whenever nothing could be freed.         *)
SweepEndHasty ==
  /\ gc = "sweep" /\ n = SIZE
  /\ SignalTable
  /\ gc' = IF oinc = 0 THEN "abort" ELSE "force"
  /\ UNCHANGED <<table, tablock, new, stack, age, scanned, n, oinc>>

(* "OREF overflow!" when nothing is free and nothing could be freed.        *)
SweepEnd ==
  /\ gc = "sweep" /\ n = SIZE
  /\ SignalTable
  /\ gc' = IF ofree = 0 /\ oinc = 0 THEN "abort" ELSE "force"
  /\ UNCHANGED <<table, tablock, new, stack, age, scanned, n, oinc>>

(* sync_gc_force.signal(): one of the forced callers, if any, is woken;     *)
(* back in sync_gc.wait() the collector releases sync_gc.                   *)
ForceSignal ==
  /\ gc = "force" /\ gc' = "wait"
  /\ LET waiters == {m \in Mutator : pc[m] = "gcwait"}
     IN IF waiters = {}
        THEN UNCHANGED pc
        ELSE \E m \in waiters : pc' = [pc EXCEPT ![m] = "gctest"]
  /\ UNCHANGED <<table, tablock, new, stack, age, scanned, n, oinc>>

-----------------------------------------------------------------------------
Allocate(m) ==
  \/ Lock(m) \/ Test(m) \/ Kick(m) \/ Wait(m) \/ WaitTimeout(m)
  \/ Color(m) \/ Unlink(m) \/ Push(m)
  \/ OrefDec(m) \/ VrefUnlock(m) \/ VrefDec(m) \/ Level(m)

ForceWait(m) == GcForcedSignal(m) \/ GcForcedTest(m)

Program(m) ==
  \/ Call(m) \/ Drop(m) \/ Copy(m) \/ GcUnforced(m) \/ GcForced(m)

Mark == MarkLock \/ (\E m \in Mutator : MarkScan(m)) \/ MarkUnlock

Sweep ==
  SweepKeep \/ SweepFree \/ SweepLink \/ SweepLast \/ SweepInc \/ SweepEnd

Collect ==
  CollectorStart \/ CollectorTimeout \/ CollectorWake \/ Mark \/ Sweep
  \/ ForceSignal

(* abort(): the process is gone.                                            *)
Aborted == gc = "abort" /\ UNCHANGED vars

Next ==
  \/ /\ gc # "abort"
     /\ \/ \E m \in Mutator : Program(m) \/ Allocate(m) \/ ForceWait(m)
        \/ Collect
  \/ Aborted

Spec == Init /\ [][Next]_vars

-----------------------------------------------------------------------------
(* Safety.                                                                  *)

FreeSlots == {s \in Slot : link[s] # InUse /\ s # olast}

(* A slot some stack reaches is in use: it is neither on the free list nor  *)
(* its dummy, so no allocation can hand it out again and no sweep has freed *)
(* the memory behind it (oref_new against sweep).                           *)
LiveNotFree ==
  \A m \in Mutator : \A s \in stack[m] : link[s] = InUse /\ s # olast

(* The slot oref_new is about to push was free: no stack reaches it and no  *)
(* other thread is taking it.                                               *)
NewIsFresh ==
  \A m \in Mutator : pc[m] = "push" =>
    /\ \A k \in Mutator : new[m] \notin stack[k]
    /\ \A k \in Mutator \ {m} : pc[k] = "push" => new[k] # new[m]

(* Following the links from onext meets every free slot and ends in olast:  *)
(* the tail being appended by sweep and the head being taken by oref_new    *)
(* never lose a slot or close a cycle.                                      *)
Walk[i \in 0..SIZE] ==
  IF i = 0 THEN onext
  ELSE IF Walk[i-1] = olast \/ Walk[i-1] \notin Slot THEN Walk[i-1]
  ELSE link[Walk[i-1]]

FreeListWhole ==
  /\ Walk[SIZE] = olast
  /\ {Walk[i] : i \in 0..SIZE} = FreeSlots \cup {olast}

(* ofree counts the free slots but for the takers that have not yet counted *)
(* theirs down and the slot sweep has not yet counted up; it may pass below *)
(* zero and wrap, when a taker is faster than sync_ofree.inc().             *)
Uncounted == Cardinality({m \in Mutator : pc[m] \in {"push", "dec", "vdec"}})
Appended == IF gc = "inc" THEN 1 ELSE 0

Accounting ==
  ofree = (Cardinality(FreeSlots) + Uncounted - Appended + WORD) % WORD

(* The program is aborted with "OREF overflow!" only when no slot is free   *)
(* and every slot in use was reachable at the last mark or taken since.     *)
OverflowJustified ==
  gc = "abort" =>
    /\ FreeSlots = {}
    /\ \A s \in Slot \ {olast} : color[s] = "black"

-----------------------------------------------------------------------------
(* Liveness.  A thread inside oref_new or __gc keeps running, and so does   *)
(* the collector, whose wait ends after 30 seconds; what the program does   *)
(* between the calls is not assumed.  The mutexes the collector and a       *)
(* forced gc contend for are free again and again, because their holders    *)
(* spend most of their time in a timed wait, so these two are strongly      *)
(* fair (ForcedGcReturns fails all the same).                               *)

Fairness ==
  /\ \A m \in Mutator : WF_vars(Allocate(m)) /\ WF_vars(ForceWait(m))
  /\ \A m \in Mutator : SF_vars(GcForcedSignal(m))
  /\ WF_vars(gc # "abort" /\ Collect)
  /\ SF_vars(MarkLock)

(* A thread that finds the table exhausted is not left waiting: a slot      *)
(* becomes free or the program is aborted, although the try-lock of sync_gc *)
(* and the unprotected sync_oreftab.signal() can both miss.                 *)
Retrying == {"test", "full", "towait", "waiting", "waking"}

Starving == onext = olast /\ \E m \in Mutator : pc[m] \in Retrying

(* A starving thread retries every 100 milliseconds and the collector waits *)
(* for 30 seconds, so of the retries of a thread that starves for good one  *)
(* after the other falls into a wait.                                       *)
RetryBeatsTimeout ==
  []<>~Starving \/ []<><<gc = "wait" /\ \E m \in Mutator : Kick(m)>>_vars

FairSpec == Spec /\ Fairness /\ RetryBeatsTimeout

StarvingEnds == Starving ~> (onext # olast \/ gc = "abort")

(* The comment in __gc (variable.cpp:989-990) says that a forced gc waits   *)
(* for the current cycle, starts a new one and waits for that one, too.     *)
(* Then the call returns; but its signal is lost when the collector is not  *)
(* waiting.                                                                 *)
ForcedGcReturns ==
  \A m \in Mutator : pc[m] = "gclock" ~> (pc[m] = "run" \/ gc = "abort")
=============================================================================
