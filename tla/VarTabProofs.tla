---------------------------- MODULE VarTabProofs ----------------------------
(***************************************************************************)
(* Proofs about VarTab: for any number of threads, any table size, any     *)
(* width of the counter and any interleaving of oref_new (or vref_new)     *)
(* with the collector.                                                     *)
(*                                                                         *)
(* First: a slot some stack reaches is never free, and an allocation gets  *)
(* a fresh slot.  LiveNotFree is not inductive.  The strengthening says    *)
(* who holds the table lock, what the links of the free list look like     *)
(* while its head and its tail move independently, which slot the sweep is *)
(* freeing, and that while it sweeps everything reachable is BLACK.        *)
(*                                                                         *)
(* Then: ofree counts what is free but for the updates under way, and the  *)
(* program is aborted with "OREF overflow!" only when nothing is free and  *)
(* nothing could be freed.                                                 *)
(*                                                                         *)
(* Last: the links lead from onext over every free slot to olast.          *)
(***************************************************************************)
EXTENDS VarTab, FiniteSetTheorems, TLAPS

(* sync_oreftab is held from the entry of oref_new to its end, but for the  *)
(* timed wait, and by the collector while it marks.                         *)
LockInv ==
  /\ \A m \in Mutator :
       pc[m] \in {"test", "full", "towait", "color", "unlink", "push", "dec"}
         => tablock = m
  /\ gc = "scan" => tablock = Collector
  /\ gc # "scan" => scanned = {}

(* The free list, said without walking it: links stay among the free slots  *)
(* and the dummy, no two of them meet, and none leads back to onext.        *)
ListInv ==
  /\ onext \in FreeSlots \cup {olast}
  /\ \A s \in FreeSlots : link[s] \in FreeSlots \cup {olast} /\ link[s] # onext
  /\ \A s, t \in FreeSlots : link[s] = link[t] => s = t

(* A thread between the test of the list and the push of its new slot.      *)
TakeInv ==
  \A m \in Mutator :
    /\ pc[m] \in {"color", "unlink"} => onext # olast
    /\ pc[m] = "unlink" => new[m] = onext
    /\ pc[m] \in {"unlink", "push"} => color[new[m]] = "black"
    /\ pc[m] = "push" => /\ link[new[m]] = InUse
                         /\ new[m] # olast
                         /\ \A k \in Mutator : new[m] \notin stack[k]

(* The slot sweep is appending is white and not yet on the list.            *)
SweepInv ==
  /\ oinc <= n
  /\ gc \in {"link", "last", "inc"} => n < SIZE
  /\ gc \in {"link", "last"} =>
       link[n] = InUse /\ n # olast /\ color[n] = "white"
  /\ gc = "last" => link[olast] = n

(* While the collector sweeps, and for a scanned stack while it marks,      *)
(* what a stack reaches is BLACK.                                           *)
ColorInv ==
  \A m \in Mutator :
    gc \in {"sweep", "link", "last", "inc"} \/ (gc = "scan" /\ m \in scanned)
      => \A s \in stack[m] : color[s] = "black"

IInv ==
  TypeOK /\ LockInv /\ ListInv /\ TakeInv /\ SweepInv /\ ColorInv /\ LiveNotFree

-----------------------------------------------------------------------------
LEMMA InitIInv == Init => IInv
<1> SUFFICES ASSUME Init PROVE IInv
  OBVIOUS
<1>1. SIZE-1 \in Slot /\ 0 \in Slot /\ SIZE-1 \in 0..WORD-1
  BY SizeAssumption, WordAssumption DEF Slot
<1>2. TypeOK
  BY <1>1, SizeAssumption DEF Init, TypeOK, Slot, InUse
<1>3. FreeSlots = Slot \ {SIZE-1}
  BY SizeAssumption DEF Init, FreeSlots, Slot, InUse
<1>4. ListInv
  BY <1>1, <1>3, SizeAssumption DEF Init, ListInv, Slot
<1>5. LockInv /\ TakeInv /\ SweepInv /\ ColorInv /\ LiveNotFree
  BY DEF Init, LockInv, TakeInv, SweepInv, ColorInv, LiveNotFree
<1> QED
  BY <1>2, <1>4, <1>5 DEF IInv

(* A step of oref_new or vref_new.                                          *)
LEMMA Allocation ==
  ASSUME IInv, NEW m \in Mutator, Allocate(m)
  PROVE  IInv'
<1> USE DEF IInv, TypeOK
<1>1. CASE Lock(m)
  BY <1>1, NameAssumption DEF Lock, LockInv, ListInv, TakeInv, SweepInv,
     ColorInv, LiveNotFree, FreeSlots, table, collector
<1>2. CASE Test(m)
  BY <1>2 DEF Test, Goto, LockInv, ListInv, TakeInv, SweepInv, ColorInv,
     LiveNotFree, FreeSlots, table, collector
<1>3. CASE Kick(m)
  BY <1>3 DEF Kick, Goto, TrySignal, Woken, LockInv, ListInv, TakeInv,
     SweepInv, ColorInv, LiveNotFree, FreeSlots, table
<1>4. CASE Wait(m)
  BY <1>4, NameAssumption DEF Wait, Goto, LockInv, ListInv, TakeInv, SweepInv,
     ColorInv, LiveNotFree, FreeSlots, table, collector
<1>5. CASE WaitTimeout(m)
  BY <1>5 DEF WaitTimeout, Goto, LockInv, ListInv, TakeInv, SweepInv, ColorInv,
     LiveNotFree, FreeSlots, table, collector
<1>6. CASE Color(m)
  BY <1>6 DEF Color, Goto, LockInv, ListInv, TakeInv, SweepInv, ColorInv,
     LiveNotFree, FreeSlots, collector
<1>7. CASE Unlink(m)
  BY <1>7 DEF Unlink, Goto, LockInv, ListInv, TakeInv, SweepInv, ColorInv,
     LiveNotFree, FreeSlots, collector
<1>8. CASE Push(m)
  BY <1>8 DEF Push, Goto, LockInv, ListInv, TakeInv, SweepInv, ColorInv,
     LiveNotFree, FreeSlots, table, collector
<1>9. CASE OrefDec(m)
  BY <1>9, NameAssumption, WordAssumption DEF OrefDec, Goto, Decremented,
     LockInv, ListInv, TakeInv, SweepInv, ColorInv, LiveNotFree, FreeSlots,
     collector
<1>10. CASE VrefUnlock(m)
  BY <1>10, NameAssumption DEF VrefUnlock, Goto, LockInv, ListInv, TakeInv,
     SweepInv, ColorInv, LiveNotFree, FreeSlots, table, collector
<1>11. CASE VrefDec(m)
  BY <1>11, WordAssumption DEF VrefDec, Goto, Decremented, LockInv, ListInv,
     TakeInv, SweepInv, ColorInv, LiveNotFree, FreeSlots, collector
<1>12. CASE Level(m)
  BY <1>12 DEF Level, Goto, TrySignal, Woken, LockInv, ListInv, TakeInv,
     SweepInv, ColorInv, LiveNotFree, FreeSlots, table
<1> QED
  BY <1>1, <1>2, <1>3, <1>4, <1>5, <1>6, <1>7, <1>8, <1>9, <1>10, <1>11, <1>12
  DEF Allocate

(* A step of the program between two allocations, or of its forced gc.      *)
LEMMA ProgramStep ==
  ASSUME IInv, NEW m \in Mutator, Program(m) \/ ForceWait(m)
  PROVE  IInv'
<1> USE DEF IInv, TypeOK
<1>1. CASE Call(m)
  BY <1>1 DEF Call, Goto, table, collector, LockInv, ListInv, TakeInv,
     SweepInv, ColorInv, LiveNotFree, FreeSlots
<1>2. CASE Drop(m)
  BY <1>2 DEF Drop, table, collector, LockInv, ListInv, TakeInv, SweepInv,
     ColorInv, LiveNotFree, FreeSlots
<1>3. CASE Copy(m)
  BY <1>3 DEF Copy, table, collector, LockInv, ListInv, TakeInv, SweepInv,
     ColorInv, LiveNotFree, FreeSlots
<1>4. CASE GcUnforced(m)
  BY <1>4 DEF GcUnforced, TrySignal, Woken, table, thread, LockInv, ListInv,
     TakeInv, SweepInv, ColorInv, LiveNotFree, FreeSlots
<1>5. CASE GcForced(m)
  BY <1>5 DEF GcForced, Goto, table, collector, LockInv, ListInv, TakeInv,
     SweepInv, ColorInv, LiveNotFree, FreeSlots
<1>6. CASE GcForcedSignal(m)
  BY <1>6 DEF GcForcedSignal, Goto, Woken, table, LockInv, ListInv, TakeInv,
     SweepInv, ColorInv, LiveNotFree, FreeSlots
<1>7. CASE GcForcedTest(m)
  BY <1>7 DEF GcForcedTest, Goto, table, collector, LockInv, ListInv, TakeInv,
     SweepInv, ColorInv, LiveNotFree, FreeSlots
<1> QED
  BY <1>1, <1>2, <1>3, <1>4, <1>5, <1>6, <1>7 DEF Program, ForceWait

(* A step of the collector.                                                 *)
LEMMA CollectorStep ==
  ASSUME IInv, Collect
  PROVE  IInv'
<1> USE DEF IInv, TypeOK
<1>1. CASE CollectorStart
  BY <1>1 DEF CollectorStart, table, thread, LockInv, ListInv, TakeInv,
     SweepInv, ColorInv, LiveNotFree, FreeSlots
<1>2. CASE CollectorTimeout
  BY <1>2 DEF CollectorTimeout, table, thread, LockInv, ListInv, TakeInv,
     SweepInv, ColorInv, LiveNotFree, FreeSlots
<1>3. CASE CollectorWake
  BY <1>3 DEF CollectorWake, table, thread, LockInv, ListInv, TakeInv,
     SweepInv, ColorInv, LiveNotFree, FreeSlots
<1>4. CASE MarkLock
  BY <1>4, NameAssumption DEF MarkLock, LockInv, ListInv, TakeInv, SweepInv,
     ColorInv, LiveNotFree, FreeSlots
<1>5. CASE \E m \in Mutator : MarkScan(m)
  <2> PICK m \in Mutator : MarkScan(m)
    BY <1>5
  <2> USE DEF MarkScan, thread
  <2>1. TypeOK'
    OBVIOUS
  <2>2. LockInv' /\ ListInv' /\ SweepInv' /\ LiveNotFree'
    BY DEF LockInv, ListInv, SweepInv, LiveNotFree, FreeSlots
  <2>3. TakeInv'
    BY NameAssumption DEF TakeInv, LockInv
  <2>4. ColorInv'
    BY DEF ColorInv
  <2> QED
    BY <2>1, <2>2, <2>3, <2>4
<1>6. CASE MarkUnlock
  BY <1>6, NameAssumption, SizeAssumption DEF MarkUnlock, table, thread,
     LockInv, ListInv, TakeInv, SweepInv, ColorInv, LiveNotFree, FreeSlots
<1>7. CASE SweepKeep
  BY <1>7, SizeAssumption DEF SweepKeep, table, thread, LockInv, ListInv,
     TakeInv, SweepInv, ColorInv, LiveNotFree, FreeSlots
<1>8. CASE SweepFree
  BY <1>8, SizeAssumption DEF SweepFree, Keeps, table, thread, Slot, LockInv,
     ListInv, TakeInv, SweepInv, ColorInv, LiveNotFree, FreeSlots
<1>9. CASE SweepLink
  BY <1>9, SizeAssumption DEF SweepLink, thread, Slot, InUse, LockInv, ListInv,
     TakeInv, SweepInv, ColorInv, LiveNotFree, FreeSlots
<1>10. CASE SweepLast
  <2> USE <1>10, SizeAssumption DEF SweepLast, thread, Slot, InUse
  <2>1. n \in Slot /\ link[n] = InUse /\ n # olast /\ color[n] = "white"
        /\ link[olast] = n
    BY DEF SweepInv
  <2>2. FreeSlots' = FreeSlots \cup {olast}
    BY <2>1 DEF FreeSlots
  <2>3. onext # n /\ \A s \in FreeSlots : link[s] # n
    BY <2>1 DEF ListInv, FreeSlots
  <2>4. ListInv'
    BY <2>1, <2>2, <2>3 DEF ListInv
  <2>5. TypeOK' /\ LockInv' /\ SweepInv' /\ ColorInv'
    BY <2>1 DEF LockInv, SweepInv, ColorInv
  <2>6. TakeInv' /\ LiveNotFree'
    BY <2>1, <2>3 DEF TakeInv, LiveNotFree, ColorInv
  <2> QED
    BY <2>4, <2>5, <2>6
<1>11. CASE SweepInc
  BY <1>11, SizeAssumption, WordAssumption DEF SweepInc, SignalTable, LockInv,
     ListInv, TakeInv, SweepInv, ColorInv, LiveNotFree, FreeSlots
<1>12. CASE SweepEnd
  BY <1>12 DEF SweepEnd, SignalTable, table, LockInv, ListInv, TakeInv,
     SweepInv, ColorInv, LiveNotFree, FreeSlots
<1>13. CASE ForceSignal
  BY <1>13 DEF ForceSignal, table, LockInv, ListInv, TakeInv, SweepInv,
     ColorInv, LiveNotFree, FreeSlots
<1> QED
  BY <1>1, <1>2, <1>3, <1>4, <1>5, <1>6, <1>7, <1>8, <1>9, <1>10, <1>11, <1>12, <1>13
  DEF Collect, Mark, Sweep

THEOREM InductiveInvariant == Spec => []IInv
<1>1. IInv /\ [Next]_vars => IInv'
  <2> SUFFICES ASSUME IInv, [Next]_vars PROVE IInv'
    OBVIOUS
  <2>1. ASSUME NEW m \in Mutator, Program(m) \/ Allocate(m) \/ ForceWait(m)
        PROVE IInv'
    BY <2>1, Allocation, ProgramStep
  <2>2. CASE Collect
    BY <2>2, CollectorStep
  <2>3. CASE UNCHANGED vars
    BY <2>3 DEF vars, table, thread, collector, IInv, TypeOK, LockInv, ListInv,
       TakeInv, SweepInv, ColorInv, LiveNotFree, FreeSlots
  <2> QED
    BY <2>1, <2>2, <2>3 DEF Next, Aborted
<1> QED
  BY InitIInv, <1>1, PTL DEF Spec

(* The variables keep their types: the table indices stay in the table and  *)
(* the counters in their words, whatever the threads and the collector do.  *)
THEOREM TypeCorrect == Spec => []TypeOK
  BY InductiveInvariant, PTL DEF IInv

(* No interleaving of oref_new and sweep frees or hands out a slot that a   *)
(* stack reaches.                                                           *)
THEOREM LiveStaysInUse == Spec => []LiveNotFree
  BY InductiveInvariant, PTL DEF IInv

(* Two allocations never get the same slot, and neither gets a live one.    *)
THEOREM AllocationIsFresh == Spec => []NewIsFresh
<1>1. IInv => NewIsFresh
  BY NameAssumption DEF IInv, NewIsFresh, TakeInv, LockInv
<1> QED
  BY InductiveInvariant, <1>1, PTL

-----------------------------------------------------------------------------
(* Who has taken a slot and not counted it, and what is counted.            *)
Takers == {m \in Mutator : pc[m] \in {"push", "dec", "vdec"}}
Balance == Cardinality(FreeSlots) + Cardinality(Takers) - Appended

(* Until it returns to the program a thread holds on to the slot it took,   *)
(* and so nobody else takes it.                                             *)
HeldInv ==
  \A m \in Mutator : pc[m] \in {"dec", "vdec"} =>
    /\ new[m] \in stack[m]
    /\ \A k \in Mutator \ {m} : pc[k] \in {"dec", "vdec"} => new[k] # new[m]

(* While sweep has freed nothing, what it has passed is free or black.      *)
KeptInv ==
  gc \in {"sweep", "link", "last"} /\ oinc = 0 =>
    \A s \in Slot : s < n /\ s # olast => link[s] # InUse \/ color[s] = "black"

(* The counter, with its only wrap.                                         *)
CountInv == ofree = IF Balance < 0 THEN WORD - 1 ELSE Balance

CInv == IInv /\ HeldInv /\ KeptInv /\ CountInv /\ OverflowJustified

(* At most SIZE-1 slots are free or just taken: the takers have different   *)
(* slots, none of them free and none of them the dummy.                     *)
LEMMA TakersBound ==
  ASSUME IInv, HeldInv
  PROVE  /\ IsFiniteSet(FreeSlots) /\ IsFiniteSet(Takers)
         /\ Cardinality(FreeSlots) \in Nat /\ Cardinality(Takers) \in Nat
         /\ Cardinality(FreeSlots) + Cardinality(Takers) <= SIZE - 1
<1>1. /\ new \in [Mutator -> Slot] /\ olast \in Slot /\ SIZE \in Nat
      /\ Takers \subseteq Mutator /\ FreeSlots \subseteq Slot \ {olast}
  BY SizeAssumption DEF IInv, TypeOK, Takers, FreeSlots
<1>2. IsFiniteSet(Slot) /\ Cardinality(Slot) = SIZE
  BY <1>1, SizeAssumption, FS_Interval DEF Slot
<1>3. IsFiniteSet(Slot \ {olast}) /\ Cardinality(Slot \ {olast}) = SIZE - 1
  BY <1>1, <1>2, FS_RemoveElement
<1>4. IsFiniteSet(FreeSlots)
  BY <1>1, <1>3, FS_Subset
<1> DEFINE R == Slot \ ({olast} \cup FreeSlots)
<1>5. \A m \in Takers : new[m] \in R
  BY <1>1 DEF IInv, TakeInv, HeldInv, LiveNotFree, FreeSlots, Takers
<1>6. \A m, k \in Takers : new[m] = new[k] => m = k
  BY <1>1 DEF IInv, TakeInv, HeldInv, LockInv, Takers
<1> DEFINE f == [m \in Takers |-> new[m]]
<1>7. f \in Injection(Takers, R)
  BY <1>5, <1>6 DEF Injection, IsInjective
<1>8. /\ IsFiniteSet(R) /\ Cardinality(R) = SIZE - 1 - Cardinality(FreeSlots)
  <2>1. R = (Slot \ {olast}) \ FreeSlots /\ (Slot \ {olast}) \cap FreeSlots = FreeSlots
    BY <1>1
  <2> QED
    BY <1>3, <2>1, FS_Difference
<1> HIDE DEF R, f
<1>9. IsFiniteSet(Takers) /\ Cardinality(Takers) <= Cardinality(R)
  BY <1>7, <1>8, FS_Injection
<1>10. Cardinality(FreeSlots) \in Nat /\ Cardinality(Takers) \in Nat
  BY <1>4, <1>9, FS_CardinalityType
<1> QED
  BY <1>1, <1>4, <1>8, <1>9, <1>10

(* The counter modulo WORD.                                                 *)
LEMMA Wrap ==
  ASSUME NEW x \in Int, -1 <= x, x < WORD
  PROVE  (x + WORD) % WORD = IF x < 0 THEN WORD - 1 ELSE x
<1>1. WORD \in Nat \ {0}
  BY WordAssumption, SizeAssumption
<1> QED
  BY <1>1

LEMMA CountUp ==
  ASSUME NEW x \in 0..WORD-1
  PROVE  (x + 1) % WORD = IF x = WORD - 1 THEN 0 ELSE x + 1
<1>1. WORD \in Nat \ {0}
  BY WordAssumption, SizeAssumption
<1> QED
  BY <1>1

LEMMA CountDown ==
  ASSUME NEW x \in 0..WORD-1
  PROVE  (x + WORD - 1) % WORD = IF x = 0 THEN WORD - 1 ELSE x - 1
<1>1. WORD \in Nat \ {0}
  BY WordAssumption, SizeAssumption
<1> QED
  BY <1>1

-----------------------------------------------------------------------------
(* What a step does to the counter and to what it counts.                   *)

(* The free slots and the takers stay, and so does the counter.             *)
LEMMA CountKept ==
  ASSUME CInv, ofree' = ofree, FreeSlots' = FreeSlots, Takers' = Takers,
         Appended' = Appended
  PROVE  CountInv'
  BY DEF CInv, CountInv, Balance

(* A thread counts its slot down.                                           *)
LEMMA CountTaken ==
  ASSUME CInv, NEW m \in Takers, ofree' = Decremented, FreeSlots' = FreeSlots,
         Takers' = Takers \ {m}, Appended' = Appended
  PROVE  CountInv'
<1>1. /\ Balance \in Int /\ Balance >= 0 /\ Balance < WORD
      /\ Balance' = Balance - 1
  <2>1. /\ IsFiniteSet(Takers) /\ Cardinality(FreeSlots) \in Nat
        /\ Cardinality(Takers) \in Nat
        /\ Cardinality(FreeSlots) + Cardinality(Takers) <= SIZE - 1
    BY TakersBound DEF CInv
  <2>2. Cardinality(Takers \ {m}) = Cardinality(Takers) - 1
        /\ Cardinality(Takers \ {m}) \in Nat
    BY <2>1, FS_RemoveElement, FS_CardinalityType
  <2>3. Appended \in {0, 1}
    BY DEF Appended
  <2> QED
    BY <2>1, <2>2, <2>3, WordAssumption, SizeAssumption DEF Balance
<1>2. ofree = Balance /\ ofree \in 0..WORD-1
  BY <1>1, WordAssumption DEF CInv, CountInv
<1>3. ofree' = IF ofree = 0 THEN WORD - 1 ELSE ofree - 1
  BY <1>2, CountDown DEF Decremented
<1> QED
  BY <1>1, <1>2, <1>3 DEF CountInv

LEMMA AllocationCount ==
  ASSUME CInv, IInv', NEW m \in Mutator, Allocate(m)
  PROVE  CInv'
<1>1. /\ TypeOK /\ LockInv /\ TakeInv /\ HeldInv /\ KeptInv /\ OverflowJustified
      /\ pc \in [Mutator -> {"run", "lock", "test", "full", "towait", "waiting",
                             "waking", "color", "unlink", "push", "dec", "vdec",
                             "level", "gclock", "gctest", "gcwait"}]
      /\ new \in [Mutator -> Slot] /\ stack \in [Mutator -> SUBSET Slot]
      /\ link \in [Slot -> {InUse} \cup 0..SIZE] /\ onext \in FreeSlots \cup {olast}
      /\ color \in [Slot -> {"white", "black"}]
  BY DEF CInv, IInv, TypeOK, ListInv
<1>2. CASE Lock(m) \/ Test(m) \/ Kick(m) \/ Wait(m) \/ WaitTimeout(m) \/ Level(m)
  <2>1. /\ UNCHANGED <<link, color, olast, ofree, new, stack, n, oinc>>
        /\ \A k \in Mutator : pc'[k] \in {"push", "dec", "vdec"} <=>
                              pc[k] \in {"push", "dec", "vdec"}
        /\ \A k \in Mutator : pc'[k] \in {"dec", "vdec"} => pc'[k] = pc[k]
        /\ gc' = gc \/ (gc = "wait" /\ gc' = "woken")
    BY <1>1, <1>2 DEF Lock, Test, Kick, Wait, WaitTimeout, Level, Goto, TrySignal,
       Woken, table, collector
  <2>2. Takers' = Takers /\ FreeSlots' = FreeSlots /\ Appended' = Appended
    BY <2>1 DEF Takers, FreeSlots, Appended
  <2>3. CountInv'
    BY <2>1, <2>2, CountKept
  <2>4. HeldInv' /\ KeptInv' /\ OverflowJustified'
    BY <1>1, <2>1, <2>2 DEF HeldInv, KeptInv, OverflowJustified
  <2> QED
    BY <2>3, <2>4 DEF CInv
<1>3. CASE Color(m)
  <2>1. /\ UNCHANGED <<link, onext, olast, ofree, stack, gc, n, oinc>>
        /\ pc[m] = "color" /\ pc' = [pc EXCEPT ![m] = "unlink"]
        /\ new' = [new EXCEPT ![m] = onext]
        /\ color' = [color EXCEPT ![onext] = "black"]
    BY <1>3 DEF Color, Goto, collector
  <2>2. Takers' = Takers /\ FreeSlots' = FreeSlots /\ Appended' = Appended
    BY <1>1, <2>1 DEF Takers, FreeSlots, Appended
  <2>3. CountInv'
    BY <2>1, <2>2, CountKept
  <2>4. HeldInv' /\ KeptInv' /\ OverflowJustified'
    BY <1>1, <2>1, <2>2 DEF HeldInv, KeptInv, OverflowJustified
  <2> QED
    BY <2>3, <2>4 DEF CInv
<1>4. CASE Unlink(m)
  <2>1. /\ UNCHANGED <<color, olast, ofree, new, stack, gc, n, oinc>>
        /\ pc[m] = "unlink" /\ pc' = [pc EXCEPT ![m] = "push"]
        /\ link' = [link EXCEPT ![new[m]] = InUse]
    BY <1>4 DEF Unlink, Goto, collector
  <2>2. new[m] \in FreeSlots /\ color[new[m]] = "black"
    BY <1>1, <2>1 DEF TakeInv
  <2>3. FreeSlots' = FreeSlots \ {new[m]}
    BY <1>1, <2>1, <2>2 DEF FreeSlots
  <2>4. Takers' = Takers \cup {m} /\ m \notin Takers /\ Appended' = Appended
    BY <1>1, <2>1 DEF Takers, Appended
  <2>5. CountInv'
    <3>1. /\ IsFiniteSet(FreeSlots) /\ IsFiniteSet(Takers)
          /\ Cardinality(FreeSlots) \in Nat /\ Cardinality(Takers) \in Nat
      BY TakersBound DEF CInv
    <3>2. Cardinality(FreeSlots') = Cardinality(FreeSlots) - 1
      BY <2>2, <2>3, <3>1, FS_RemoveElement
    <3>3. Cardinality(Takers') = Cardinality(Takers) + 1
      BY <2>4, <3>1, FS_AddElement
    <3>4. Appended \in {0, 1}
      BY DEF Appended
    <3>5. Balance' = Balance
      BY <2>4, <3>1, <3>2, <3>3, <3>4 DEF Balance
    <3> QED
      BY <2>1, <3>5 DEF CInv, CountInv
  <2>6. HeldInv' /\ KeptInv' /\ OverflowJustified'
    BY <1>1, <2>1, <2>2, <2>3 DEF HeldInv, KeptInv, OverflowJustified
  <2> QED
    BY <2>5, <2>6 DEF CInv
<1>5. CASE Push(m)
  <2>1. /\ UNCHANGED <<link, color, olast, ofree, new, gc, n, oinc>>
        /\ pc[m] = "push" /\ pc' = [pc EXCEPT ![m] = "dec"]
        /\ stack' = [stack EXCEPT ![m] = @ \cup {new[m]}]
    BY <1>5 DEF Push, Goto, table, collector
  <2>2. Takers' = Takers /\ FreeSlots' = FreeSlots /\ Appended' = Appended
    BY <1>1, <2>1 DEF Takers, FreeSlots, Appended
  <2>3. CountInv'
    BY <2>1, <2>2, CountKept
  <2>4. HeldInv'
    <3>1. \A k \in Mutator \ {m} : pc[k] \in {"dec", "vdec"} => new[k] # new[m]
      BY <1>1, <2>1 DEF HeldInv, TakeInv
    <3>2. \A k \in Mutator \ {m} : pc'[k] = pc[k] /\ stack'[k] = stack[k]
      BY <1>1, <2>1
    <3>3. pc'[m] = "dec" /\ new[m] \in stack'[m] /\ new' = new
      BY <1>1, <2>1
    <3> QED
      BY <1>1, <3>1, <3>2, <3>3 DEF HeldInv
  <2>5. KeptInv' /\ OverflowJustified'
    BY <1>1, <2>1, <2>2 DEF KeptInv, OverflowJustified
  <2> QED
    BY <2>3, <2>4, <2>5 DEF CInv
<1>6. CASE OrefDec(m) \/ VrefDec(m)
  <2>1. /\ UNCHANGED <<link, color, olast, new, stack, gc, n, oinc>>
        /\ pc[m] \in {"dec", "vdec"} /\ pc' = [pc EXCEPT ![m] = "level"]
        /\ ofree' = Decremented
    BY <1>6 DEF OrefDec, VrefDec, Goto, collector
  <2>2. Takers' = Takers \ {m} /\ m \in Takers
    BY <1>1, <2>1 DEF Takers
  <2>3. FreeSlots' = FreeSlots /\ Appended' = Appended
    BY <2>1 DEF FreeSlots, Appended
  <2>4. CountInv'
    BY <2>1, <2>2, <2>3, CountTaken
  <2>5. HeldInv' /\ KeptInv' /\ OverflowJustified'
    BY <1>1, <2>1, <2>3 DEF HeldInv, KeptInv, OverflowJustified
  <2> QED
    BY <2>4, <2>5 DEF CInv
<1>7. CASE VrefUnlock(m)
  <2>1. /\ UNCHANGED <<link, color, olast, ofree, new, stack, gc, n, oinc>>
        /\ pc[m] = "dec" /\ pc' = [pc EXCEPT ![m] = "vdec"]
    BY <1>7 DEF VrefUnlock, Goto, table, collector
  <2>2. Takers' = Takers /\ FreeSlots' = FreeSlots /\ Appended' = Appended
    BY <1>1, <2>1 DEF Takers, FreeSlots, Appended
  <2>3. CountInv'
    BY <2>1, <2>2, CountKept
  <2>4. HeldInv' /\ KeptInv' /\ OverflowJustified'
    BY <1>1, <2>1, <2>2 DEF HeldInv, KeptInv, OverflowJustified
  <2> QED
    BY <2>3, <2>4 DEF CInv
<1> QED
  BY <1>2, <1>3, <1>4, <1>5, <1>6, <1>7 DEF Allocate

LEMMA ProgramCount ==
  ASSUME CInv, IInv', NEW m \in Mutator, Program(m) \/ ForceWait(m)
  PROVE  CInv'
<1>1. /\ TypeOK /\ HeldInv /\ KeptInv /\ OverflowJustified
      /\ pc \in [Mutator -> {"run", "lock", "test", "full", "towait", "waiting",
                             "waking", "color", "unlink", "push", "dec", "vdec",
                             "level", "gclock", "gctest", "gcwait"}]
      /\ stack \in [Mutator -> SUBSET Slot]
  BY DEF CInv, IInv, TypeOK
<1>2. /\ UNCHANGED <<link, color, olast, ofree, new, n, oinc>>
      /\ \A k \in Mutator : pc'[k] \in {"push", "dec", "vdec"} <=>
                            pc[k] \in {"push", "dec", "vdec"}
      /\ \A k \in Mutator : pc'[k] \in {"dec", "vdec"} =>
                            pc'[k] = pc[k] /\ stack'[k] = stack[k]
      /\ gc' = gc \/ (gc = "wait" /\ gc' = "woken")
  BY <1>1 DEF Program, ForceWait, Call, Drop, Copy, GcUnforced, GcForced,
     GcForcedSignal, GcForcedTest, Goto, TrySignal, Woken, table, thread, collector
<1>3. Takers' = Takers /\ FreeSlots' = FreeSlots /\ Appended' = Appended
  BY <1>2 DEF Takers, FreeSlots, Appended
<1>4. CountInv'
  BY <1>2, <1>3, CountKept
<1>5. HeldInv' /\ KeptInv' /\ OverflowJustified'
  BY <1>1, <1>2, <1>3 DEF HeldInv, KeptInv, OverflowJustified
<1> QED
  BY <1>4, <1>5 DEF CInv

(* A signal to the table or to the forced callers makes nobody a taker.     *)
LEMMA SignalCount ==
  ASSUME CInv, UNCHANGED <<link, color, olast, new, stack>>,
         \A k \in Mutator :
           pc'[k] = pc[k] \/ {pc[k], pc'[k]} \cap {"push", "dec", "vdec"} = {}
  PROVE  Takers' = Takers /\ FreeSlots' = FreeSlots /\ HeldInv'
<1>1. \A k \in Mutator : pc'[k] \in {"push", "dec", "vdec"} <=>
                         pc[k] \in {"push", "dec", "vdec"}
  OBVIOUS
<1>2. \A k \in Mutator : pc'[k] \in {"dec", "vdec"} => pc'[k] = pc[k]
  OBVIOUS
<1>3. HeldInv'
  BY <1>2 DEF CInv, HeldInv
<1> QED
  BY <1>1, <1>3 DEF Takers, FreeSlots

LEMMA SignalsWake ==
  ASSUME TypeOK, SignalTable \/ ForceSignal
  PROVE  \A k \in Mutator :
           pc'[k] = pc[k] \/ {pc[k], pc'[k]} \cap {"push", "dec", "vdec"} = {}
<1>1. pc \in [Mutator -> {"run", "lock", "test", "full", "towait", "waiting",
                          "waking", "color", "unlink", "push", "dec", "vdec",
                          "level", "gclock", "gctest", "gcwait"}]
  BY DEF TypeOK
<1> QED
  BY <1>1 DEF SignalTable, ForceSignal

LEMMA CollectorCount ==
  ASSUME CInv, IInv', Collect, gc # "abort"
  PROVE  CInv'
<1>1. /\ TypeOK /\ IInv /\ SweepInv /\ ListInv /\ HeldInv /\ KeptInv /\ CountInv
      /\ link \in [Slot -> {InUse} \cup 0..SIZE] /\ olast \in Slot
      /\ n \in 0..SIZE /\ oinc \in 0..SIZE /\ SIZE \in Nat \ {0}
      /\ ofree \in 0..WORD-1
  BY SizeAssumption DEF CInv, IInv, TypeOK
<1>2. CASE \/ CollectorStart \/ CollectorTimeout \/ CollectorWake \/ MarkLock
           \/ (\E m \in Mutator : MarkScan(m)) \/ MarkUnlock
  <2>1. /\ UNCHANGED <<link, olast, ofree, pc, new, stack>>
        /\ gc \notin {"sweep", "link", "last", "inc"}
        /\ gc' \notin {"link", "last", "inc", "abort"}
        /\ gc' = "sweep" => n' = 0
    BY <1>2 DEF CollectorStart, CollectorTimeout, CollectorWake, MarkLock, MarkScan,
       MarkUnlock, table, thread
  <2>2. Takers' = Takers /\ FreeSlots' = FreeSlots /\ Appended' = Appended
    BY <2>1 DEF Takers, FreeSlots, Appended
  <2>3. CountInv'
    BY <2>1, <2>2, CountKept
  <2>4. HeldInv' /\ OverflowJustified'
    BY <1>1, <2>1 DEF HeldInv, OverflowJustified
  <2>5. KeptInv'
    BY <2>1 DEF KeptInv, Slot
  <2> QED
    BY <2>3, <2>4, <2>5 DEF CInv
<1>3. CASE SweepKeep \/ SweepFree \/ SweepLink
  <2>1. /\ UNCHANGED <<color, olast, ofree, pc, new, stack, oinc>>
        /\ gc \in {"sweep", "link"} /\ gc' \in {"sweep", "link", "last"}
        /\ link' = link \/ (link' = [link EXCEPT ![olast] = n] /\ n \in Slot)
    BY <1>1, <1>3 DEF SweepKeep, SweepFree, SweepLink, SweepInv, table, thread, Slot
  <2>2. FreeSlots' = FreeSlots
    BY <1>1, <2>1 DEF FreeSlots
  <2>3. Takers' = Takers /\ Appended' = Appended
    BY <2>1 DEF Takers, Appended
  <2>4. CountInv'
    BY <2>1, <2>2, <2>3, CountKept
  <2>5. HeldInv' /\ OverflowJustified'
    BY <1>1, <2>1 DEF HeldInv, OverflowJustified
  <2>6. KeptInv'
    <3>1. CASE SweepKeep
      BY <1>1, <3>1 DEF SweepKeep, Keeps, KeptInv, table, Slot
    <3>2. CASE SweepFree \/ SweepLink
      BY <1>1, <3>2 DEF SweepFree, SweepLink, KeptInv, table, Slot
    <3> QED
      BY <1>3, <3>1, <3>2
  <2> QED
    BY <2>4, <2>5, <2>6 DEF CInv
<1>4. CASE SweepLast
  <2>1. /\ UNCHANGED <<link, color, onext, ofree, pc, new, stack, n, oinc>>
        /\ gc = "last" /\ gc' = "inc" /\ olast' = n
    BY <1>4 DEF SweepLast, thread
  <2>2. /\ n \in Slot /\ link[n] = InUse /\ n # olast /\ link[olast] = n
        /\ InUse \notin Slot
    BY <1>1, <2>1 DEF SweepInv, Slot, InUse
  <2>3. FreeSlots' = FreeSlots \cup {olast} /\ olast \notin FreeSlots
    BY <1>1, <2>1, <2>2 DEF FreeSlots
  <2>4. Takers' = Takers /\ Appended = 0 /\ Appended' = 1
    BY <2>1 DEF Takers, Appended
  <2>5. CountInv'
    <3>1. /\ IsFiniteSet(FreeSlots)
          /\ Cardinality(FreeSlots) \in Nat /\ Cardinality(Takers) \in Nat
      BY TakersBound DEF CInv
    <3>2. Cardinality(FreeSlots') = Cardinality(FreeSlots) + 1
      BY <2>3, <3>1, FS_AddElement
    <3>3. Balance' = Balance
      BY <2>4, <3>1, <3>2 DEF Balance
    <3> QED
      BY <1>1, <2>1, <3>3 DEF CountInv
  <2>6. HeldInv' /\ KeptInv' /\ OverflowJustified'
    BY <1>1, <2>1 DEF HeldInv, KeptInv, OverflowJustified
  <2> QED
    BY <2>5, <2>6 DEF CInv
<1>5. CASE SweepInc
  <2>1. /\ UNCHANGED <<link, color, onext, olast, new, stack>>
        /\ gc = "inc" /\ gc' = "sweep" /\ ofree' = (ofree + 1) % WORD
        /\ oinc' = oinc + 1 /\ SignalTable
    BY <1>5 DEF SweepInc
  <2>2. Takers' = Takers /\ FreeSlots' = FreeSlots /\ HeldInv'
    BY <1>1, <2>1, SignalsWake, SignalCount
  <2>3. Appended = 1 /\ Appended' = 0
    BY <2>1 DEF Appended
  <2>4. CountInv'
    <3>1. /\ Cardinality(FreeSlots) \in Nat /\ Cardinality(Takers) \in Nat
          /\ Cardinality(FreeSlots) + Cardinality(Takers) <= SIZE - 1
      BY TakersBound DEF CInv
    <3>2. /\ Balance \in Int /\ Balance >= -1 /\ Balance + 1 < WORD
          /\ Balance' = Balance + 1
      BY <2>2, <2>3, <3>1, WordAssumption, SizeAssumption DEF Balance
    <3>3. ofree' = IF ofree = WORD - 1 THEN 0 ELSE ofree + 1
      BY <1>1, <2>1, CountUp
    <3> QED
      BY <1>1, <3>2, <3>3, WordAssumption DEF CountInv
  <2>5. KeptInv' /\ OverflowJustified'
    BY <1>1, <2>1 DEF KeptInv, OverflowJustified
  <2> QED
    BY <2>2, <2>4, <2>5 DEF CInv
<1>6. CASE SweepEnd
  <2>1. /\ UNCHANGED <<link, color, onext, olast, ofree, new, stack, n, oinc>>
        /\ gc = "sweep" /\ n = SIZE /\ SignalTable
        /\ gc' = IF ofree = 0 /\ oinc = 0 THEN "abort" ELSE "force"
    BY <1>6 DEF SweepEnd, table
  <2>2. Takers' = Takers /\ FreeSlots' = FreeSlots /\ HeldInv'
    BY <1>1, <2>1, SignalsWake, SignalCount
  <2>3. Appended = 0 /\ Appended' = 0
    BY <2>1 DEF Appended
  <2>4. CountInv'
    BY <2>1, <2>2, <2>3, CountKept
  <2>5. KeptInv'
    BY <2>1 DEF KeptInv
  <2>6. OverflowJustified'
    <3> SUFFICES ASSUME ofree = 0, oinc = 0
                 PROVE  FreeSlots = {} /\ \A s \in Slot \ {olast} : color[s] = "black"
      BY <2>1, <2>2 DEF OverflowJustified
    <3>1. /\ IsFiniteSet(FreeSlots)
          /\ Cardinality(FreeSlots) \in Nat /\ Cardinality(Takers) \in Nat
      BY TakersBound DEF CInv
    <3>2. Balance = 0
      BY <1>1, <2>3, <3>1, WordAssumption, SizeAssumption DEF CountInv, Balance
    <3>3. Cardinality(FreeSlots) = 0
      BY <2>3, <3>1, <3>2 DEF Balance
    <3>4. FreeSlots = {}
      BY <3>1, <3>3, FS_EmptySet
    <3>5. \A s \in Slot \ {olast} : s < n /\ link[s] = InUse
      BY <1>1, <2>1, <3>4 DEF FreeSlots, Slot
    <3> QED
      BY <1>1, <2>1, <3>4, <3>5 DEF KeptInv
  <2> QED
    BY <2>2, <2>4, <2>5, <2>6 DEF CInv
<1>7. CASE ForceSignal
  <2>1. /\ UNCHANGED <<link, color, onext, olast, ofree, new, stack, n, oinc>>
        /\ gc = "force" /\ gc' = "wait"
    BY <1>7 DEF ForceSignal, table
  <2>2. Takers' = Takers /\ FreeSlots' = FreeSlots /\ HeldInv'
    BY <1>1, <1>7, <2>1, SignalsWake, SignalCount
  <2>3. Appended' = Appended
    BY <2>1 DEF Appended
  <2>4. CountInv' /\ KeptInv' /\ OverflowJustified'
    BY <2>1, <2>2, <2>3, CountKept DEF KeptInv, OverflowJustified
  <2> QED
    BY <2>2, <2>4 DEF CInv
<1> QED
  BY <1>2, <1>3, <1>4, <1>5, <1>6, <1>7 DEF Collect, Mark, Sweep

LEMMA InitCount == Init => CInv
<1> SUFFICES ASSUME Init PROVE CInv
  OBVIOUS
<1>1. IInv
  BY InitIInv
<1>2. HeldInv /\ KeptInv /\ OverflowJustified
  BY DEF Init, HeldInv, KeptInv, OverflowJustified
<1>3. FreeSlots = 0..SIZE-2
  BY SizeAssumption DEF Init, FreeSlots, Slot, InUse
<1>4. Cardinality(FreeSlots) = SIZE - 1
  <2>1. SIZE \in Nat \ {0} /\ 0 \in Int /\ SIZE - 2 \in Int
    BY SizeAssumption
  <2>2. Cardinality(0..SIZE-2) = IF 0 > SIZE-2 THEN 0 ELSE SIZE-2-0+1
    BY <2>1, FS_Interval
  <2> QED
    BY <1>3, <2>1, <2>2
<1>5. Takers = {} /\ Appended = 0
  BY DEF Init, Takers, Appended
<1>6. CountInv
  BY <1>4, <1>5, FS_EmptySet, SizeAssumption DEF Init, CountInv, Balance
<1> QED
  BY <1>1, <1>2, <1>6 DEF CInv

(* The counter follows the updates of takers and sweep through every order, *)
(* as the takers hold on to different slots and the sweep keeps its place.  *)
THEOREM CountInvariant == Spec => []CInv
<1>1. CInv /\ [Next]_vars => CInv'
  <2> SUFFICES ASSUME CInv, [Next]_vars PROVE CInv'
    OBVIOUS
  <2>1. ASSUME NEW m \in Mutator, Program(m) \/ Allocate(m) \/ ForceWait(m)
        PROVE  CInv'
    BY <2>1, Allocation, ProgramStep, AllocationCount, ProgramCount DEF CInv
  <2>2. CASE gc # "abort" /\ Collect
    BY <2>2, CollectorStep, CollectorCount DEF CInv
  <2>3. CASE UNCHANGED vars
    <3>1. Takers' = Takers /\ FreeSlots' = FreeSlots /\ Appended' = Appended
      BY <2>3 DEF vars, table, thread, collector, Takers, FreeSlots, Appended
    <3>2. IInv'
      BY <2>3 DEF vars, table, thread, collector, CInv, IInv, TypeOK, LockInv,
         ListInv, TakeInv, SweepInv, ColorInv, LiveNotFree, FreeSlots
    <3>3. CountInv'
      BY <2>3, <3>1, CountKept DEF vars, table
    <3> QED
      BY <2>3, <3>1, <3>2, <3>3
      DEF vars, table, thread, collector, CInv, HeldInv, KeptInv, OverflowJustified
  <2> QED
    BY <2>1, <2>2, <2>3 DEF Next, Aborted
<1> QED
  BY InitCount, <1>1, PTL DEF Spec

(* ofree agrees with the free list at every moment, but for the slots that  *)
(* oref_new or vref_new took and has yet to count down and the one that     *)
(* sweep appended and has yet to count up.                                  *)
THEOREM CounterAgrees == Spec => []Accounting
<1>1. CInv => Accounting
  <2> SUFFICES ASSUME CInv PROVE Accounting
    OBVIOUS
  <2>1. /\ Cardinality(FreeSlots) \in Nat /\ Cardinality(Takers) \in Nat
        /\ Cardinality(FreeSlots) + Cardinality(Takers) <= SIZE - 1
    BY TakersBound DEF CInv
  <2>2. Appended \in {0, 1}
    BY DEF Appended
  <2>3. Balance \in Int /\ -1 <= Balance /\ Balance < WORD
    BY <2>1, <2>2, WordAssumption, SizeAssumption DEF Balance
  <2>4. ofree = (Balance + WORD) % WORD
    BY <2>3, Wrap DEF CInv, CountInv
  <2> QED
    BY <2>4 DEF Accounting, Balance, Uncounted, Takers
<1> QED
  BY CountInvariant, <1>1, PTL

(* "OREF overflow!" ends the program only when no slot is free and every    *)
(* other slot was reachable at the last mark or has been taken since.       *)
THEOREM OverflowIsJustified == Spec => []OverflowJustified
  BY CountInvariant, PTL DEF CInv

-----------------------------------------------------------------------------
(* The free list as a chain: w leads from onext along the links to olast,   *)
(* meets nothing twice and passes every free slot.                          *)
ChainOf(k, w) ==
  /\ w[0] = onext /\ w[k] = olast
  /\ \A i \in 0..k-1 : w[i+1] = link[w[i]]
  /\ \A i, j \in 0..k : w[i] = w[j] => i = j
  /\ {w[i] : i \in 0..k} = FreeSlots \cup {olast}

ChainInv == \E k \in Nat : \E w \in [0..k -> Slot] : ChainOf(k, w)

LInv == IInv /\ ChainInv

LEMMA InitChain == Init => ChainInv
<1> SUFFICES ASSUME Init PROVE ChainInv
  OBVIOUS
<1> DEFINE k == SIZE - 1
           w == [i \in 0..k |-> i]
<1>1. k \in Nat /\ w \in [0..k -> Slot]
  BY SizeAssumption DEF Slot
<1>2. FreeSlots \cup {olast} = 0..k
  BY SizeAssumption DEF Init, FreeSlots, Slot, InUse
<1>3. ChainOf(k, w)
  <2>1. w[0] = onext /\ w[k] = olast
    BY <1>1 DEF Init
  <2>2. \A i \in 0..k-1 : w[i+1] = link[w[i]]
    BY <1>1 DEF Init, Slot
  <2>3. {w[i] : i \in 0..k} = 0..k
    OBVIOUS
  <2> QED
    BY <1>2, <2>1, <2>2, <2>3 DEF ChainOf
<1> HIDE DEF w
<1>4. \E v \in [0..k -> Slot] : ChainOf(k, v)
  BY <1>1, <1>3
<1> QED
  BY <1>1, <1>4 DEF ChainInv

(* oref_new takes the head: the chain begins one later.                     *)
LEMMA UnlinkChain ==
  ASSUME LInv, NEW m \in Mutator, Unlink(m)
  PROVE  ChainInv'
<1>1. /\ link \in [Slot -> {InUse} \cup 0..SIZE]
      /\ onext # olast /\ new[m] = onext
      /\ onext' = link[onext] /\ link' = [link EXCEPT ![onext] = InUse]
      /\ olast' = olast
  BY DEF LInv, IInv, TypeOK, TakeInv, Unlink, Goto
<1>2. PICK k \in Nat : \E w \in [0..k -> Slot] : ChainOf(k, w)
  BY DEF LInv, ChainInv
<1>3. PICK w \in [0..k -> Slot] : ChainOf(k, w)
  BY <1>2
<1>4. /\ w[0] = onext /\ w[k] = olast
      /\ \A i \in 0..k-1 : w[i+1] = link[w[i]]
      /\ \A i, j \in 0..k : w[i] = w[j] => i = j
      /\ {w[i] : i \in 0..k} = FreeSlots \cup {olast}
  BY <1>3 DEF ChainOf
<1>5. k - 1 \in Nat /\ \A i \in 0..k-1 : i \in 0..k /\ i+1 \in 0..k
  BY <1>1, <1>4
<1> DEFINE u == [i \in 0..k-1 |-> w[i+1]]
<1>6. u \in [0..k-1 -> Slot]
  BY <1>5
<1>7. u[0] = onext' /\ u[k-1] = olast'
  BY <1>1, <1>4, <1>5
<1>8. \A i \in 0..k-1 : u[i] # onext
  <2> SUFFICES ASSUME NEW i \in 0..k-1 PROVE w[i+1] # w[0]
    BY <1>4
  <2> QED
    BY <1>4, <1>5
<1>9. \A i \in 0..(k-1)-1 : u[i+1] = link'[u[i]]
  <2> SUFFICES ASSUME NEW i \in 0..(k-1)-1 PROVE u[i+1] = link'[u[i]]
    OBVIOUS
  <2>1. i \in 0..k-1 /\ i+1 \in 0..k-1 /\ u[i] \in Slot /\ u[i] # onext
    BY <1>5, <1>6, <1>8
  <2>2. link'[u[i]] = link[u[i]]
    BY <1>1, <2>1
  <2> QED
    BY <1>4, <1>5, <2>1, <2>2
<1>10. \A i, j \in 0..k-1 : u[i] = u[j] => i = j
  BY <1>4, <1>5
<1>11. {u[i] : i \in 0..k-1} = FreeSlots' \cup {olast'}
  <2>1. FreeSlots' = FreeSlots \ {onext} /\ onext \in Slot
    BY <1>1, <1>3, <1>4, <1>5 DEF FreeSlots
  <2>2. \A i \in 0..k-1 : u[i] \in (FreeSlots \cup {olast}) \ {onext}
    BY <1>4, <1>5, <1>8
  <2>3. ASSUME NEW s \in (FreeSlots \cup {olast}) \ {onext}
        PROVE  \E i \in 0..k-1 : u[i] = s
    <3>1. PICK j \in 0..k : w[j] = s
      BY <1>4
    <3>2. j # 0
      BY <1>4, <3>1
    <3>3. j-1 \in 0..k-1 /\ u[j-1] = s
      BY <3>1, <3>2
    <3> QED
      BY <3>3
  <2> QED
    BY <1>1, <2>1, <2>2, <2>3
<1> HIDE DEF u
<1>12. ChainOf(k-1, u)'
  BY <1>7, <1>9, <1>10, <1>11 DEF ChainOf
<1> QED
  BY <1>5, <1>6, <1>12 DEF ChainInv

(* sweep links the tail to the slot it frees: no link the chain follows     *)
(* changes.                                                                 *)
LEMMA LinkChain ==
  ASSUME LInv, SweepLink
  PROVE  ChainInv'
<1>1. /\ link \in [Slot -> {InUse} \cup 0..SIZE] /\ olast \in Slot
      /\ n \in 0..SIZE-1 /\ link[olast] \in {InUse} \cup 0..SIZE
      /\ link' = [link EXCEPT ![olast] = n] /\ UNCHANGED <<onext, olast>>
  BY SizeAssumption DEF LInv, IInv, TypeOK, SweepInv, SweepLink
<1>2. PICK k \in Nat : \E w \in [0..k -> Slot] : ChainOf(k, w)
  BY DEF LInv, ChainInv
<1>3. PICK w \in [0..k -> Slot] : ChainOf(k, w)
  BY <1>2
<1>4. FreeSlots' = FreeSlots
  BY <1>1 DEF FreeSlots
<1>5. \A i \in 0..k-1 : w[i] # olast
  BY <1>3 DEF ChainOf
<1>6. ChainOf(k, w)'
  BY <1>1, <1>3, <1>4, <1>5 DEF ChainOf
<1> QED
  BY <1>3, <1>6 DEF ChainInv

(* sweep moves olast to that slot: the chain ends one later.                *)
LEMMA LastChain ==
  ASSUME LInv, SweepLast
  PROVE  ChainInv'
<1>1. /\ link \in [Slot -> {InUse} \cup 0..SIZE] /\ olast \in Slot
      /\ n \in Slot /\ link[n] = InUse /\ n # olast /\ link[olast] = n
      /\ InUse \notin Slot
      /\ olast' = n /\ UNCHANGED <<link, onext>>
  BY SizeAssumption DEF LInv, IInv, TypeOK, SweepInv, SweepLast, Slot, InUse
<1>2. PICK k \in Nat : \E w \in [0..k -> Slot] : ChainOf(k, w)
  BY DEF LInv, ChainInv
<1>3. PICK w \in [0..k -> Slot] : ChainOf(k, w)
  BY <1>2
<1>4. /\ w[0] = onext /\ w[k] = olast
      /\ \A i \in 0..k-1 : w[i+1] = link[w[i]]
      /\ \A i, j \in 0..k : w[i] = w[j] => i = j
      /\ {w[i] : i \in 0..k} = FreeSlots \cup {olast}
  BY <1>3 DEF ChainOf
<1>5. PICK u \in [0..k+1 -> Slot] : u = [i \in 0..k+1 |-> IF i = k+1 THEN n ELSE w[i]]
  <2>1. [i \in 0..k+1 |-> IF i = k+1 THEN n ELSE w[i]] \in [0..k+1 -> Slot]
    BY <1>1
  <2> QED
    BY <2>1
<1>6. \A i \in 0..k : i \in 0..k+1 /\ u[i] = w[i] /\ w[i] # n
  BY <1>1, <1>4, <1>5 DEF FreeSlots
<1>7. u[k+1] = n /\ k+1 \in Nat
  BY <1>5
<1>8. u[0] = onext' /\ u[k+1] = olast'
  BY <1>1, <1>4, <1>6, <1>7
<1>9. \A i \in 0..(k+1)-1 : u[i+1] = link'[u[i]]
  <2> SUFFICES ASSUME NEW i \in 0..(k+1)-1 PROVE u[i+1] = link[u[i]]
    BY <1>1
  <2>1. CASE i = k
    BY <1>1, <1>4, <1>6, <1>7, <2>1
  <2>2. CASE i # k
    BY <1>4, <1>6, <2>2
  <2> QED
    BY <2>1, <2>2
<1>10. \A i, j \in 0..k+1 : u[i] = u[j] => i = j
  <2> SUFFICES ASSUME NEW i \in 0..k+1, NEW j \in 0..k+1, u[i] = u[j]
               PROVE  i = j
    OBVIOUS
  <2>1. (i = k+1 \/ i \in 0..k) /\ (j = k+1 \/ j \in 0..k)
    OBVIOUS
  <2> QED
    BY <1>4, <1>6, <1>7, <2>1
<1>11. {u[i] : i \in 0..k+1} = FreeSlots' \cup {olast'}
  <2>1. FreeSlots' = FreeSlots \cup {olast}
    BY <1>1 DEF FreeSlots
  <2>2. \A i \in 0..k+1 : u[i] \in FreeSlots \cup {olast, n}
    <3> SUFFICES ASSUME NEW i \in 0..k+1 PROVE u[i] \in FreeSlots \cup {olast, n}
      OBVIOUS
    <3>1. i = k+1 \/ i \in 0..k
      OBVIOUS
    <3> QED
      BY <1>4, <1>6, <1>7, <3>1
  <2>3. ASSUME NEW s \in FreeSlots \cup {olast, n}
        PROVE  \E i \in 0..k+1 : u[i] = s
    <3>1. CASE s = n
      BY <1>7, <3>1
    <3>2. CASE s # n
      <4>1. PICK j \in 0..k : w[j] = s
        BY <1>4, <3>2
      <4> QED
        BY <1>6, <4>1
    <3> QED
      BY <3>1, <3>2
  <2> QED
    BY <1>1, <2>1, <2>2, <2>3
<1>12. ChainOf(k+1, u)'
  BY <1>8, <1>9, <1>10, <1>11 DEF ChainOf
<1> QED
  BY <1>7, <1>12 DEF ChainInv

LEMMA NextChain == LInv /\ [Next]_vars => ChainInv'
<1> SUFFICES ASSUME LInv, [Next]_vars PROVE ChainInv'
  OBVIOUS
<1>1. ASSUME UNCHANGED <<link, onext, olast>> PROVE ChainInv'
  BY <1>1 DEF LInv, ChainInv, ChainOf, FreeSlots
<1>2. ASSUME NEW m \in Mutator, Program(m) \/ ForceWait(m) PROVE ChainInv'
  BY <1>1, <1>2 DEF Program, ForceWait, Call, Drop, Copy, GcUnforced, GcForced,
     GcForcedSignal, GcForcedTest, table, thread
<1>3. ASSUME NEW m \in Mutator, Allocate(m) PROVE ChainInv'
  <2>1. CASE Unlink(m)
    BY <2>1, UnlinkChain
  <2>2. CASE ~Unlink(m)
    BY <1>1, <1>3, <2>2 DEF Allocate, Lock, Test, Kick, Wait, WaitTimeout, Color,
       Push, OrefDec, VrefUnlock, VrefDec, Level, table
  <2> QED
    BY <2>1, <2>2
<1>4. CASE Collect
  <2>1. CASE SweepLink \/ SweepLast
    BY <2>1, LinkChain, LastChain
  <2>2. CASE ~(SweepLink \/ SweepLast)
    BY <1>1, <1>4, <2>2 DEF Collect, Mark, Sweep, CollectorStart, CollectorTimeout,
       CollectorWake, MarkLock, MarkScan, MarkUnlock, SweepKeep, SweepFree, SweepInc,
       SweepEnd, ForceSignal, table
  <2> QED
    BY <2>1, <2>2
<1>5. CASE UNCHANGED vars
  BY <1>1, <1>5 DEF vars, table
<1> QED
  BY <1>2, <1>3, <1>4, <1>5 DEF Next, Aborted

-----------------------------------------------------------------------------
(* The walk of the model is that chain, followed by olast for ever.         *)

(* A set of numbers has a least one.                                        *)
LEMMA Least ==
  ASSUME NEW S \in SUBSET Nat, S # {}
  PROVE  \E i \in S : \A j \in S : i <= j
<1> DEFINE R == OpToRel(<, Nat)
<1>1. IsWellFoundedOn(R, Nat)
  BY NatLessThanWellFounded
<1>2. \A x, y \in Nat : y < x => <<y, x>> \in R
  BY DEF OpToRel
<1> HIDE DEF R
<1>3. PICK x \in S : \A y \in S : <<y, x>> \notin R
  BY <1>1, WFMin
<1>4. \A y \in S : ~(y < x)
  BY <1>2, <1>3
<1> QED
  BY <1>4

(* What the definition of Walk asks of a function.                          *)
IsWalk(f) ==
  f = [i \in 0..SIZE |->
        IF i = 0 THEN onext
        ELSE IF f[i-1] = olast \/ f[i-1] \notin Slot THEN f[i-1]
        ELSE link[f[i-1]]]

(* Only one function walks.                                                 *)
LEMMA WalkUnique ==
  ASSUME NEW f, NEW g, IsWalk(f), IsWalk(g)
  PROVE  \A i \in 0..SIZE : f[i] = g[i]
<1> SUFFICES ASSUME ~(\A i \in 0..SIZE : f[i] = g[i]) PROVE FALSE
  OBVIOUS
<1> DEFINE S == {i \in 0..SIZE : f[i] # g[i]}
<1>1. S \in SUBSET Nat /\ S # {}
  BY SizeAssumption
<1>2. PICK i \in S : \A j \in S : i <= j
  BY <1>1, Least
<1>3. i \in 0..SIZE /\ f[i] # g[i] /\ \A j \in 0..SIZE : j < i => f[j] = g[j]
  BY <1>2, SizeAssumption
<1>4. /\ f[i] = IF i = 0 THEN onext
                ELSE IF f[i-1] = olast \/ f[i-1] \notin Slot THEN f[i-1]
                ELSE link[f[i-1]]
      /\ g[i] = IF i = 0 THEN onext
                ELSE IF g[i-1] = olast \/ g[i-1] \notin Slot THEN g[i-1]
                ELSE link[g[i-1]]
  BY <1>3, Zenon DEF IsWalk
<1>5. i # 0 => f[i-1] = g[i-1]
  BY <1>3, SizeAssumption
<1> QED
  BY <1>3, <1>4, <1>5

(* The chain ends within the table, and with olast behind its end it walks. *)
LEMMA ChainWalks ==
  ASSUME LInv, NEW k \in Nat, NEW w \in [0..k -> Slot], ChainOf(k, w)
  PROVE  /\ k < SIZE
         /\ IsWalk([i \in 0..SIZE |-> IF i <= k THEN w[i] ELSE olast])
<1>1. /\ w[0] = onext /\ w[k] = olast
      /\ \A i \in 0..k-1 : w[i+1] = link[w[i]]
      /\ \A i, j \in 0..k : w[i] = w[j] => i = j
      /\ olast \in Slot /\ SIZE \in Nat \ {0}
  BY SizeAssumption DEF ChainOf, LInv, IInv, TypeOK
<1>2. k < SIZE
  <2>1. IsFiniteSet(Slot) /\ Cardinality(Slot) = SIZE
    BY <1>1, FS_Interval DEF Slot
  <2>2. Cardinality(0..k) = k + 1
    BY FS_Interval
  <2>3. w \in Injection(0..k, Slot)
    BY <1>1 DEF Injection, IsInjective
  <2>4. IsFiniteSet(0..k)
    BY FS_Interval
  <2>5. Cardinality(0..k) <= Cardinality(Slot)
    BY <2>1, <2>3, <2>4, FS_Injection, Zenon
  <2> QED
    BY <1>1, <2>1, <2>2, <2>5
<1> DEFINE f == [i \in 0..SIZE |-> IF i <= k THEN w[i] ELSE olast]
           Step(i) == IF i = 0 THEN onext
                      ELSE IF f[i-1] = olast \/ f[i-1] \notin Slot THEN f[i-1]
                      ELSE link[f[i-1]]
<1>3. \A i \in 0..SIZE : f[i] = IF i <= k THEN w[i] ELSE olast
  OBVIOUS
<1> HIDE DEF f
<1>4. ASSUME NEW i \in 0..SIZE PROVE f[i] = Step(i)
  <2>1. CASE i = 0
    BY <1>1, <1>3, <2>1
  <2>2. CASE i # 0 /\ i <= k
    <3>1. i-1 \in 0..k-1 /\ i-1 \in 0..SIZE /\ i-1 # k /\ i \in 0..k
      BY <1>2, <2>2, SizeAssumption
    <3>2. f[i-1] = w[i-1] /\ f[i] = w[i]
      BY <1>3, <2>2, <3>1
    <3>3. w[i-1] # olast /\ w[i-1] \in Slot
      BY <1>1, <3>1
    <3>4. w[i] = link[w[i-1]]
      BY <1>1, <3>1
    <3> QED
      BY <2>2, <3>2, <3>3, <3>4
  <2>3. CASE i # 0 /\ i > k
    <3>1. i-1 \in 0..SIZE /\ (i-1 = k \/ i-1 > k)
      BY <1>2, <2>3, SizeAssumption
    <3>2. f[i-1] = olast /\ f[i] = olast
      BY <1>1, <1>3, <2>3, <3>1
    <3> QED
      BY <2>3, <3>2
  <2> QED
    BY <2>1, <2>2, <2>3
<1>5. f = [i \in 0..SIZE |-> Step(i)]
  <2> HIDE DEF Step
  <2> QED
    BY <1>4 DEF f
<1>6. IsWalk(f)
  BY <1>5, Zenon DEF IsWalk
<1> QED
  BY <1>2, <1>6 DEF f

LEMMA ChainWhole == LInv => FreeListWhole
<1> SUFFICES ASSUME LInv PROVE FreeListWhole
  OBVIOUS
<1>1. PICK k \in Nat : \E w \in [0..k -> Slot] : ChainOf(k, w)
  BY DEF LInv, ChainInv
<1>2. PICK w \in [0..k -> Slot] : ChainOf(k, w)
  BY <1>1
<1> DEFINE f == [i \in 0..SIZE |-> IF i <= k THEN w[i] ELSE olast]
<1>3. k < SIZE /\ IsWalk(f)
  BY <1>2, ChainWalks
<1>4. /\ w[k] = olast /\ {w[i] : i \in 0..k} = FreeSlots \cup {olast}
      /\ SIZE \in Nat
  BY <1>2, SizeAssumption DEF ChainOf
<1>5. f[SIZE] = olast
  BY <1>3, <1>4
<1>6. {f[i] : i \in 0..SIZE} = FreeSlots \cup {olast}
  <2>1. \A i \in 0..SIZE : f[i] \in FreeSlots \cup {olast}
    BY <1>3, <1>4
  <2>2. \A s \in FreeSlots \cup {olast} : \E i \in 0..SIZE : f[i] = s
    <3> SUFFICES ASSUME NEW s \in FreeSlots \cup {olast}
                 PROVE  \E i \in 0..SIZE : f[i] = s
      OBVIOUS
    <3>1. PICK i \in 0..k : w[i] = s
      BY <1>4
    <3>2. i \in 0..SIZE /\ f[i] = s
      BY <1>3, <1>4, <3>1
    <3> QED
      BY <3>2
  <2> HIDE DEF f
  <2> QED
    BY <2>1, <2>2
<1> HIDE DEF f
<1>7. IsWalk(Walk)
  <2>1. \E g : IsWalk(g)
    BY <1>3
  <2>2. Walk = CHOOSE g : IsWalk(g)
    BY Zenon DEF Walk, IsWalk
  <2> QED
    BY <2>1, <2>2, Zenon
<1>8. \A i \in 0..SIZE : Walk[i] = f[i]
  BY <1>3, <1>7, WalkUnique
<1>9. Walk[SIZE] = olast /\ {Walk[i] : i \in 0..SIZE} = {f[i] : i \in 0..SIZE}
  BY <1>4, <1>5, <1>8
<1> QED
  BY <1>6, <1>9 DEF FreeListWhole

(* Whatever oref_new takes at the head while sweep appends at the tail, the *)
(* links lead from onext over every free slot, each met once, to olast: no  *)
(* slot is lost and no cycle is closed.                                     *)
THEOREM ListStaysWhole == Spec => []FreeListWhole
<1>1. LInv /\ IInv' /\ [Next]_vars => LInv'
  BY NextChain DEF LInv
<1>2. Init => LInv
  BY InitIInv, InitChain DEF LInv
<1>3. LInv => FreeListWhole
  BY ChainWhole
<1> QED
  BY <1>1, <1>2, <1>3, InductiveInvariant, PTL DEF Spec

=============================================================================
