----------------------------- MODULE MarkProofs -----------------------------
(***************************************************************************)
(* Proofs about module Mark: what the operations do to a stack, type       *)
(* correctness in every mode, and that the collector keeps what the        *)
(* program can reach, in both modes.                                       *)
(*                                                                         *)
(* By default the marking holds all assign locks and both table locks from *)
(* the first stack it scans until the mark stack is empty; threads go on   *)
(* popping and, with the mark lock of the array alone, adding to and       *)
(* removing from arrays.  With CCC_MARKSYNC=enabled it holds the locks for *)
(* the scan and for the end of the marking only, and in between relies on  *)
(* the write barrier.  For any number of threads, objects and variables no *)
(* reachable object is freed, provided that the program does not call      *)
(* blkenv and, with CCC_MARKSYNC=enabled, loads nothing out of a vref: the *)
(* two loads of the code without a barrier.                                *)
(***************************************************************************)
EXTENDS Mark, SequenceTheorems, TLAPS

-----------------------------------------------------------------------------
(* What the operations do to a stack.                                       *)

(* Append keeps the old slots and adds one.                                 *)
LEMMA Pushed ==
  ASSUME NEW V, NEW s \in Seq(V), NEW v \in V
  PROVE  /\ Append(s, v) \in Seq(V)
         /\ Len(Append(s, v)) = Len(s) + 1
         /\ Append(s, v)[Len(s)+1] = v
         /\ \A i \in 1..Len(s) : Append(s, v)[i] = s[i]
  BY AppendProperties

(* SubSeq(s, 1, k) is a prefix of s.                                        *)
LEMMA Prefix ==
  ASSUME NEW V, NEW s \in Seq(V), NEW k \in 0..Len(s)
  PROVE  /\ SubSeq(s, 1, k) \in Seq(V)
         /\ Len(SubSeq(s, 1, k)) = k
         /\ \A i \in 1..k : SubSeq(s, 1, k)[i] = s[i]
<1>1. \A i \in 1..k : s[i] \in V
  BY ElementOfSeq
<1>2. k \in Int /\ 1 \in Int
  BY LenProperties
<1> QED
  BY <1>1, <1>2, SubSeqProperties

(* Overwriting a slot leaves the others alone.                              *)
LEMMA Overwritten ==
  ASSUME NEW V, NEW s \in Seq(V), NEW k \in 1..Len(s), NEW v \in V
  PROVE  /\ [s EXCEPT ![k] = v] \in Seq(V)
         /\ Len([s EXCEPT ![k] = v]) = Len(s)
         /\ [s EXCEPT ![k] = v][k] = v
         /\ \A i \in 1..Len(s) : i # k => [s EXCEPT ![k] = v][i] = s[i]
<1>1. s \in [1..Len(s) -> V] /\ Len(s) \in Nat
  BY LenProperties
<1>2. [s EXCEPT ![k] = v] \in Seq(V) /\ Len([s EXCEPT ![k] = v]) = Len(s)
  BY ExceptSeq
<1> QED
  BY <1>1, <1>2

-----------------------------------------------------------------------------
(* In the middle of an operation the stack has the shape the operation      *)
(* left; a vref never holds a vref and a string holds nothing.              *)

Shape ==
  \A m \in Mutator :
    /\ pc[m] \in {"ret", "makeref", "setref"} => base[m] \in 1..Depth(m)
    /\ pc[m] = "makeref" => Top(m) \notin Ref
    /\ pc[m] \in {"copied", "shade", "added"} =>
         Depth(m) > 1 /\ Top2(m) \in Obj /\ Top(m) \notin Ref
    /\ pc[m] = "moved" => Depth(m) > 0

Flat ==
  /\ \A r \in Ref : holds[r] \cap Ref = {}
  /\ \A s \in Leaf : holds[s] = {}

Typed == TypeOK /\ Shape /\ Flat

LEMMA InitTyped == Init => Typed
<1> SUFFICES ASSUME Init PROVE Typed
  OBVIOUS
<1>1. First \in Value /\ First \in Node
  BY NodeAssumption DEF Value, Node
<1>2. stack \in [Mutator -> Seq(Value)]
  BY <1>1 DEF Init
<1>3. TypeOK
  BY <1>1, <1>2, NodeAssumption DEF Init, TypeOK, Node
<1>4. Shape
  BY DEF Init, Shape
<1>5. Flat
  BY DEF Init, Flat, Node
<1> QED
  BY <1>3, <1>4, <1>5 DEF Typed

(* The values an operation works with are values.                           *)
LEMMA SlotTypes ==
  ASSUME TypeOK, NEW m \in Mutator
  PROVE  /\ Depth(m) \in Nat
         /\ \A i \in 1..Depth(m) : stack[m][i] \in Value
         /\ Depth(m) > 0 => Top(m) \in Value
         /\ Depth(m) > 1 => Top2(m) \in Value
         /\ Slots(m) \subseteq Value
<1>1. stack[m] \in Seq(Value)
  BY DEF TypeOK
<1>2. Depth(m) \in Nat /\ \A i \in 1..Depth(m) : stack[m][i] \in Value
  BY <1>1, ElementOfSeq, LenProperties DEF Depth
<1>3. Depth(m) > 0 => Depth(m) \in 1..Depth(m)
  BY <1>2
<1>4. Depth(m) > 1 => Depth(m)-1 \in 1..Depth(m)
  BY <1>2
<1> QED
  BY <1>2, <1>3, <1>4 DEF Top, Top2, Slots

(* Shading keeps the types of color and mark_stack.                         *)
LEMMA ShadeTypes ==
  ASSUME TypeOK, NEW S \in SUBSET Node
  PROVE  /\ ShadedColor(S) \in [Node -> {"white", "gray", "black"}]
         /\ ShadedStack(S) \in SUBSET Obj
<1>1. color \in [Node -> {"white", "gray", "black"}] /\ mark_stack \in SUBSET Obj
  BY DEF TypeOK
<1>2. ShadedColor(S) \in [Node -> {"white", "gray", "black"}]
  BY <1>1 DEF ShadedColor
<1>3. ShadedStack(S) \in SUBSET Obj
  BY <1>1 DEF ShadedStack
<1> QED
  BY <1>2, <1>3

LEMMA BarrierTypes ==
  ASSUME TypeOK, NEW S \in SUBSET Node, Barrier(S)
  PROVE  /\ color' \in [Node -> {"white", "gray", "black"}]
         /\ mark_stack' \in SUBSET Obj
  BY ShadeTypes DEF Barrier, Shade, marks, TypeOK

LEMMA SingletonType ==
  ASSUME NEW v \in Value
  PROVE  Singleton(v) \in SUBSET Node
  BY DEF Singleton, Value

-----------------------------------------------------------------------------
(* The four ways a stack changes.                                           *)

LEMMA StackPush ==
  ASSUME TypeOK, NEW m \in Mutator, NEW v \in Value,
         stack' = [stack EXCEPT ![m] = Append(@, v)]
  PROVE  /\ stack' \in [Mutator -> Seq(Value)]
         /\ \A k \in Mutator \ {m} : stack'[k] = stack[k]
         /\ Len(stack'[m]) = Depth(m) + 1
         /\ stack'[m][Depth(m)+1] = v
         /\ \A i \in 1..Depth(m) : stack'[m][i] = stack[m][i]
<1>1. stack \in [Mutator -> Seq(Value)] /\ stack[m] \in Seq(Value)
  BY DEF TypeOK
<1>2. stack'[m] = Append(stack[m], v)
  BY <1>1
<1>3. stack'[m] \in Seq(Value)
  BY <1>1, <1>2, Pushed
<1> QED
  BY <1>1, <1>2, <1>3, Pushed DEF Depth

LEMMA StackPut ==
  ASSUME TypeOK, NEW m \in Mutator, NEW v \in Value, NEW k \in 1..Depth(m),
         stack' = [stack EXCEPT ![m][k] = v]
  PROVE  /\ stack' \in [Mutator -> Seq(Value)]
         /\ \A j \in Mutator \ {m} : stack'[j] = stack[j]
         /\ Len(stack'[m]) = Depth(m)
         /\ stack'[m][k] = v
         /\ \A i \in 1..Depth(m) : i # k => stack'[m][i] = stack[m][i]
<1>1. stack \in [Mutator -> Seq(Value)] /\ stack[m] \in Seq(Value)
  BY DEF TypeOK
<1>2. stack'[m] = [stack[m] EXCEPT ![k] = v]
  BY <1>1
<1>3. stack' = [stack EXCEPT ![m] = stack'[m]]
  BY <1>1
<1>4. k \in 1..Len(stack[m])
  BY DEF Depth
<1>5. stack'[m] \in Seq(Value) /\ Len(stack'[m]) = Len(stack[m])
      /\ stack'[m][k] = v
      /\ \A i \in 1..Len(stack[m]) : i # k => stack'[m][i] = stack[m][i]
  BY <1>1, <1>2, <1>4, Overwritten
<1> QED
  BY <1>1, <1>3, <1>5 DEF Depth

LEMMA StackCut ==
  ASSUME TypeOK, NEW m \in Mutator, NEW k \in 0..Depth(m),
         stack' = [stack EXCEPT ![m] = SubSeq(stack[m], 1, k)]
  PROVE  /\ stack' \in [Mutator -> Seq(Value)]
         /\ \A j \in Mutator \ {m} : stack'[j] = stack[j]
         /\ Len(stack'[m]) = k
         /\ \A i \in 1..k : stack'[m][i] = stack[m][i]
<1>1. stack \in [Mutator -> Seq(Value)] /\ stack[m] \in Seq(Value)
  BY DEF TypeOK
<1>2. stack'[m] = SubSeq(stack[m], 1, k)
  BY <1>1
<1>3. k \in 0..Len(stack[m])
  BY DEF Depth
<1>4. stack'[m] \in Seq(Value) /\ Len(stack'[m]) = k
      /\ \A i \in 1..k : stack'[m][i] = stack[m][i]
  BY <1>1, <1>2, <1>3, Prefix
<1> QED
  BY <1>1, <1>4

LEMMA StackReturn ==
  ASSUME TypeOK, NEW m \in Mutator, NEW k \in 0..Depth(m), NEW v \in Value,
         stack' = [stack EXCEPT ![m] = Append(SubSeq(stack[m], 1, k), v)]
  PROVE  /\ stack' \in [Mutator -> Seq(Value)]
         /\ \A j \in Mutator \ {m} : stack'[j] = stack[j]
         /\ Len(stack'[m]) = k+1
         /\ stack'[m][k+1] = v
         /\ \A i \in 1..k : stack'[m][i] = stack[m][i]
<1>1. stack \in [Mutator -> Seq(Value)] /\ stack[m] \in Seq(Value)
  BY DEF TypeOK
<1> DEFINE s == SubSeq(stack[m], 1, k)
<1>2. stack'[m] = Append(s, v)
  BY <1>1
<1>3. k \in 0..Len(stack[m])
  BY DEF Depth
<1>4. s \in Seq(Value) /\ Len(s) = k /\ \A i \in 1..k : s[i] = stack[m][i]
  BY <1>1, <1>3, Prefix
<1> HIDE DEF s
<1>5. stack'[m] \in Seq(Value) /\ Len(stack'[m]) = k+1 /\ stack'[m][k+1] = v
      /\ \A i \in 1..k : stack'[m][i] = stack[m][i]
  BY <1>2, <1>4, Pushed
<1> QED
  BY <1>1, <1>5

-----------------------------------------------------------------------------
(* Typed is inductive.                                                      *)

(* The part of Shape about one thread.                                      *)
ShapeOf(m) ==
  /\ pc[m] \in {"ret", "makeref", "setref"} => base[m] \in 1..Depth(m)
  /\ pc[m] = "makeref" => Top(m) \notin Ref
  /\ pc[m] \in {"copied", "shade", "added"} =>
       Depth(m) > 1 /\ Top2(m) \in Obj /\ Top(m) \notin Ref
  /\ pc[m] = "moved" => Depth(m) > 0

(* A step of a thread leaves the others as they are.                        *)
LEMMA ShapeLocal ==
  ASSUME Shape, NEW m \in Mutator, ShapeOf(m)',
         \A k \in Mutator \ {m} :
           stack'[k] = stack[k] /\ pc'[k] = pc[k] /\ base'[k] = base[k]
  PROVE  Shape'
  BY DEF Shape, ShapeOf, Depth, Top, Top2

LEMMA StackStep ==
  ASSUME Typed, NEW m \in Mutator, Push(m) \/ PushLocal(m) \/ Pop(m)
  PROVE  Typed'
<1>1. TypeOK /\ Shape /\ Flat /\ pc[m] = "run"
  BY DEF Typed, Push, PushLocal, Pop, Uses
<1>2. stack' \in [Mutator -> Seq(Value)]
      /\ \A k \in Mutator \ {m} : stack'[k] = stack[k]
  <2>1. CASE Push(m)
    <3>1. Loads(m) \subseteq Value
      BY <1>1, SlotTypes DEF Loads, TypeOK, Value, Node
    <3>2. PICK v \in Loads(m) : stack' = [stack EXCEPT ![m] = Append(@, v)]
      BY <2>1 DEF Push
    <3> QED
      BY <1>1, <3>1, <3>2, StackPush
  <2>2. CASE PushLocal(m)
    <3>1. PICK v \in Slots(m) : stack' = [stack EXCEPT ![m] = Append(@, v)]
      BY <2>2 DEF PushLocal
    <3> QED
      BY <1>1, <3>1, SlotTypes, StackPush
  <2>3. CASE Pop(m)
    <3>1. Depth(m)-1 \in 0..Depth(m)
      BY <1>1, <2>3, SlotTypes DEF Pop
    <3> QED
      BY <1>1, <2>3, <3>1, StackCut DEF Pop, Popped
  <2> QED
    BY <2>1, <2>2, <2>3
<1>3. UNCHANGED <<heap, marks, mark_phase, pc, base, gc, scan, visit>>
  BY DEF Push, PushLocal, Pop
<1>4. TypeOK'
  BY <1>1, <1>2, <1>3 DEF TypeOK, heap, marks, scan, visit
<1>5. ShapeOf(m)'
  BY <1>1, <1>3 DEF ShapeOf
<1>6. Shape'
  BY <1>1, <1>2, <1>3, <1>5, ShapeLocal
<1> QED
  BY <1>1, <1>3, <1>4, <1>6 DEF Typed, Flat, heap

LEMMA ElementStep ==
  ASSUME Typed, NEW m \in Mutator,
         Index(m) \/ Store(m) \/ Assign(m) \/ Remove(m)
  PROVE  Typed'
<1>1. TypeOK /\ Shape /\ Flat /\ pc[m] = "run"
  BY DEF Typed, Index, Store, Assign, Remove, Uses
<1>2. UNCHANGED <<inuse, mark_phase, pc, base, gc, scan, visit>>
  BY DEF Index, Store, Assign, Remove, heap, program
<1>3. stack' \in [Mutator -> Seq(Value)]
      /\ \A k \in Mutator \ {m} : stack'[k] = stack[k]
  <2>1. CASE Index(m)
    <3>1. PICK v \in (holds[Top(m)] \ Ref) \cup {NIL} :
             stack' = [stack EXCEPT ![m][Depth(m)] = v]
      BY <2>1 DEF Index
    <3>2. Depth(m) \in 1..Depth(m) /\ Top(m) \in Node
      BY <1>1, <2>1, SlotTypes DEF Index, Node
    <3>3. v \in Value
      BY <1>1, <3>2 DEF TypeOK, Value
    <3> QED
      BY <1>1, <3>1, <3>2, <3>3, StackPut
  <2>2. CASE Store(m)
    <3>1. Depth(m)-1 \in 0..Depth(m)
      BY <1>1, <2>2, SlotTypes DEF Store
    <3> QED
      BY <1>1, <2>2, <3>1, StackCut DEF Store, Popped
  <2>3. CASE Assign(m) \/ Remove(m)
    BY <1>1, <2>3 DEF Assign, Remove, program, TypeOK
  <2> QED
    BY <2>1, <2>2, <2>3
<1>4. color' \in [Node -> {"white", "gray", "black"}] /\ mark_stack' \in SUBSET Obj
  <2>1. CASE Index(m)
    <3>1. PICK v \in (holds[Top(m)] \ Ref) \cup {NIL} : Barrier(Singleton(v))
      BY <2>1 DEF Index
    <3>2. v \in Value
      BY <1>1, <2>1 DEF TypeOK, Value, Index, Node
    <3> QED
      BY <1>1, <3>1, <3>2, SingletonType, BarrierTypes
  <2>2. CASE Store(m)
    <3>1. Singleton(Top2(m)) \in SUBSET Node /\ Barrier(Singleton(Top2(m)))
      BY <1>1, <2>2, SlotTypes, SingletonType DEF Store
    <3> QED
      BY <1>1, <3>1, BarrierTypes
  <2>3. CASE Assign(m)
    <3>1. Singleton(Top(m)) \in SUBSET Node /\ Barrier(Singleton(Top(m)))
      BY <1>1, <2>3, SlotTypes, SingletonType DEF Assign
    <3> QED
      BY <1>1, <3>1, BarrierTypes
  <2>4. CASE Remove(m)
    BY <1>1, <2>4 DEF Remove, marks, TypeOK
  <2> QED
    BY <2>1, <2>2, <2>3, <2>4
<1>5. holds' \in [Node -> SUBSET Node] /\ Flat'
  <2>1. CASE Index(m)
    BY <1>1, <2>1 DEF Index, heap, TypeOK, Flat
  <2>2. CASE Store(m)
    <3>1. Singleton(Top2(m)) \in SUBSET Node /\ Top(m) \in Obj /\ Top(m) \in Node
      BY <1>1, <2>2, SlotTypes, SingletonType DEF Store, Node
    <3>2. PICK old \in {{}} \cup {{x} : x \in holds[Top(m)] \ Ref} :
            holds' = [holds EXCEPT ![Top(m)] = (@ \ old) \cup Singleton(Top2(m))]
      BY <2>2 DEF Store
    <3> QED
      BY <1>1, <3>1, <3>2, NodeAssumption DEF TypeOK, Flat, Node
  <2>3. CASE Assign(m)
    <3>1. Singleton(Top(m)) \in SUBSET Node /\ Singleton(Top(m)) \cap Ref = {}
      BY <1>1, <2>3, SlotTypes, SingletonType DEF Assign, Singleton
    <3>2. PICK r \in Ref : holds' = [holds EXCEPT ![r] = Singleton(Top(m))]
      BY <2>3 DEF Assign
    <3> QED
      BY <1>1, <3>1, <3>2, NodeAssumption DEF TypeOK, Flat, Node
  <2>4. CASE Remove(m)
    <3>1. PICK x : holds' = [holds EXCEPT ![Top(m)] = @ \ {x}]
      BY <2>4 DEF Remove
    <3> QED
      BY <1>1, <3>1 DEF TypeOK, Flat, Node
  <2> QED
    BY <2>1, <2>2, <2>3, <2>4
<1>6. TypeOK'
  BY <1>1, <1>2, <1>3, <1>4, <1>5 DEF TypeOK, scan, visit
<1>7. ShapeOf(m)'
  BY <1>1, <1>2 DEF ShapeOf
<1>8. Shape'
  BY <1>1, <1>2, <1>3, <1>7, ShapeLocal
<1> QED
  BY <1>5, <1>6, <1>8 DEF Typed

LEMMA CreateStep ==
  ASSUME Typed, NEW m \in Mutator, New(m) \/ NewLeaf(m) \/ Ret(m)
  PROVE  Typed'
<1>1. TypeOK /\ Shape /\ Flat
  BY DEF Typed
<1>2. UNCHANGED <<mark_phase, gc, scan, visit>>
  BY DEF New, NewLeaf, Ret
<1>3. CASE New(m)
  <2>1. PICK o \in Obj \ inuse, k \in 0..Depth(m) :
          /\ inuse' = inuse \cup {o}
          /\ holds' = [holds EXCEPT
               ![o] = {stack[m][i] : i \in Depth(m)-k+1..Depth(m)} \ {NIL}]
          /\ color' = [color EXCEPT ![o] = "black"]
          /\ stack' = [stack EXCEPT ![m] = Append(@, o)]
          /\ base' = [base EXCEPT ![m] = Depth(m)-k+1]
    BY <1>3 DEF New
  <2>2. o \in Node /\ o \in Value /\ Depth(m) \in Nat
    BY <1>1, SlotTypes DEF Node, Value
  <2>3. \A i \in Depth(m)-k+1..Depth(m) : stack[m][i] \in Value
    BY <1>1, <2>1, <2>2, SlotTypes
  <2>4. holds' \in [Node -> SUBSET Node]
    BY <1>1, <2>1, <2>2, <2>3 DEF TypeOK, Value
  <2>5. /\ stack' \in [Mutator -> Seq(Value)]
        /\ \A j \in Mutator \ {m} : stack'[j] = stack[j]
        /\ Len(stack'[m]) = Depth(m) + 1
    BY <1>1, <2>1, <2>2, StackPush
  <2>6. Depth(m)-k+1 \in 1..Depth(m)+1 /\ Depth(m)-k+1 \in Nat
    BY <2>1, <2>2
  <2>7. TypeOK'
    BY <1>1, <1>2, <1>3, <2>1, <2>2, <2>4, <2>5, <2>6
    DEF TypeOK, New, scan, visit
  <2>8. ShapeOf(m)'
    BY <1>1, <1>3, <2>1, <2>5, <2>6 DEF ShapeOf, New, TypeOK, Depth
  <2>9. Shape'
    BY <1>1, <1>3, <2>1, <2>5, <2>8, ShapeLocal DEF New, TypeOK
  <2>10. Flat'
    BY <1>1, <2>1, <2>2, NodeAssumption DEF Flat, TypeOK, Node
  <2> QED
    BY <2>7, <2>9, <2>10 DEF Typed
<1>4. CASE NewLeaf(m)
  <2>1. PICK s \in Leaf \ inuse :
          /\ inuse' = inuse \cup {s}
          /\ color' = [color EXCEPT ![s] = "black"]
          /\ stack' = [stack EXCEPT ![m] = Append(@, s)]
    BY <1>4 DEF NewLeaf
  <2>2. s \in Node /\ s \in Value
    BY DEF Node, Value
  <2>3. /\ stack' \in [Mutator -> Seq(Value)]
        /\ \A j \in Mutator \ {m} : stack'[j] = stack[j]
    BY <1>1, <2>1, <2>2, StackPush
  <2>4. TypeOK'
    BY <1>1, <1>2, <1>4, <2>1, <2>2, <2>3 DEF TypeOK, NewLeaf, scan, visit
  <2>5. ShapeOf(m)'
    BY <1>4 DEF ShapeOf, NewLeaf, Uses
  <2>6. Shape' /\ Flat'
    BY <1>1, <1>4, <2>3, <2>5, ShapeLocal DEF NewLeaf, Flat
  <2> QED
    BY <2>4, <2>6 DEF Typed
<1>5. CASE Ret(m)
  <2>1. base[m] \in 1..Depth(m) /\ Depth(m) \in Nat
    BY <1>1, <1>5, SlotTypes DEF Shape, Ret
  <2>2. Depth(m) > 0 /\ base[m]-1 \in 0..Depth(m)
    BY <2>1
  <2>3. Top(m) \in Value /\ Singleton(Top(m)) \in SUBSET Node
    BY <1>1, <2>2, SlotTypes, SingletonType
  <2>4. /\ stack' \in [Mutator -> Seq(Value)]
        /\ \A j \in Mutator \ {m} : stack'[j] = stack[j]
    BY <1>1, <1>5, <2>2, <2>3, StackReturn DEF Ret
  <2>5. color' \in [Node -> {"white", "gray", "black"}] /\ mark_stack' \in SUBSET Obj
    BY <1>1, <1>5, <2>3, BarrierTypes DEF Ret
  <2>6. TypeOK'
    BY <1>1, <1>2, <1>5, <2>4, <2>5 DEF TypeOK, Ret, heap, scan, visit
  <2>7. ShapeOf(m)'
    BY <1>1, <1>5 DEF ShapeOf, Ret, TypeOK
  <2>8. Shape' /\ Flat'
    BY <1>1, <1>5, <2>4, <2>7, ShapeLocal DEF Ret, Flat, heap, TypeOK
  <2> QED
    BY <2>6, <2>8 DEF Typed
<1> QED
  BY <1>3, <1>4, <1>5

LEMMA ReferenceStep ==
  ASSUME Typed, NEW m \in Mutator, PushRef(m) \/ MakeRef(m) \/ SetRef(m)
  PROVE  Typed'
<1>1. TypeOK /\ Shape /\ Flat /\ Depth(m) \in Nat
  BY SlotTypes DEF Typed
<1>2. UNCHANGED <<mark_phase, gc, scan, visit>>
  BY DEF PushRef, MakeRef, SetRef
<1>3. CASE PushRef(m)
  <2>1. PICK i \in 1..Depth(m) :
          /\ stack' = [stack EXCEPT ![m] = Append(@, stack[m][i])]
          /\ IF stack[m][i] \in Ref
             THEN UNCHANGED <<pc, base>>
             ELSE /\ pc' = [pc EXCEPT ![m] = "makeref"]
                  /\ base' = [base EXCEPT ![m] = i]
    BY <1>3 DEF PushRef
  <2>2. stack[m][i] \in Value
    BY <1>1, SlotTypes
  <2>3. /\ stack' \in [Mutator -> Seq(Value)]
        /\ \A j \in Mutator \ {m} : stack'[j] = stack[j]
        /\ Len(stack'[m]) = Depth(m) + 1
        /\ stack'[m][Depth(m)+1] = stack[m][i]
    BY <1>1, <2>1, <2>2, StackPush
  <2>4. TypeOK'
    <3>1. i \in Nat
      BY <1>1
    <3>2. /\ base' \in [Mutator -> Nat]
          /\ pc' \in [Mutator -> {"run", "ret", "makeref", "setref",
                                "copied", "shade", "added", "moved"}]
      BY <1>1, <2>1, <3>1 DEF TypeOK
    <3> QED
      BY <1>1, <1>2, <1>3, <2>3, <3>2 DEF TypeOK, PushRef, heap, marks, scan, visit
  <2>5. CASE stack[m][i] \in Ref
    BY <1>1, <1>3, <2>1, <2>3, <2>4, <2>5, ShapeLocal
    DEF ShapeOf, PushRef, Uses, Typed, Flat, heap
  <2>6. CASE stack[m][i] \notin Ref
    <3>1. pc'[m] = "makeref" /\ base'[m] = i
          /\ \A k \in Mutator \ {m} : pc'[k] = pc[k] /\ base'[k] = base[k]
      BY <1>1, <2>1, <2>6 DEF TypeOK
    <3>2. ShapeOf(m)'
      BY <1>1, <2>3, <2>6, <3>1 DEF ShapeOf, Depth, Top
    <3> QED
      BY <1>1, <1>3, <2>3, <2>4, <3>1, <3>2, ShapeLocal DEF PushRef, Typed, Flat, heap
  <2> QED
    BY <2>5, <2>6
<1>4. CASE MakeRef(m)
  <2>1. PICK r \in Ref \ inuse :
          /\ inuse' = inuse \cup {r}
          /\ holds' = [holds EXCEPT ![r] = Singleton(Top(m))]
          /\ color' = [color EXCEPT ![r] = "black"]
          /\ stack' = [stack EXCEPT ![m][Depth(m)] = r]
    BY <1>4 DEF MakeRef
  <2>2. r \in Node /\ r \in Value
    BY DEF Node, Value
  <2>3. base[m] \in 1..Depth(m) /\ Top(m) \notin Ref
    BY <1>1, <1>4 DEF Shape, MakeRef
  <2>4. Depth(m) > 0 /\ Depth(m) \in 1..Depth(m)
    BY <1>1, <2>3
  <2>5. Singleton(Top(m)) \in SUBSET Node /\ Singleton(Top(m)) \cap Ref = {}
    BY <1>1, <2>3, <2>4, SlotTypes, SingletonType DEF Singleton
  <2>6. /\ stack' \in [Mutator -> Seq(Value)]
        /\ \A j \in Mutator \ {m} : stack'[j] = stack[j]
        /\ Len(stack'[m]) = Depth(m)
    BY <1>1, <2>1, <2>2, <2>4, StackPut
  <2>7. TypeOK'
    BY <1>1, <1>2, <1>4, <2>1, <2>2, <2>5, <2>6 DEF TypeOK, MakeRef, scan, visit
  <2>8. ShapeOf(m)'
    BY <1>1, <1>4, <2>3, <2>6 DEF ShapeOf, MakeRef, TypeOK, Depth
  <2>9. Shape'
    BY <1>1, <1>4, <2>6, <2>8, ShapeLocal DEF MakeRef, TypeOK
  <2>10. Flat'
    BY <1>1, <2>1, <2>2, <2>5, NodeAssumption DEF Flat, TypeOK, Node
  <2> QED
    BY <2>7, <2>9, <2>10 DEF Typed
<1>5. CASE SetRef(m)
  <2>1. base[m] \in 1..Depth(m)
    BY <1>1, <1>5 DEF Shape, SetRef
  <2>2. Top(m) \in Value
    BY <1>1, <2>1, SlotTypes
  <2>3. /\ stack' \in [Mutator -> Seq(Value)]
        /\ \A j \in Mutator \ {m} : stack'[j] = stack[j]
    BY <1>1, <1>5, <2>1, <2>2, StackPut DEF SetRef
  <2>4. Singleton(Top(m)) \in SUBSET Node
    BY <2>2, SingletonType
  <2>5. color' \in [Node -> {"white", "gray", "black"}] /\ mark_stack' \in SUBSET Obj
    BY <1>1, <1>5, <2>4, BarrierTypes DEF SetRef
  <2>6. TypeOK'
    BY <1>1, <1>2, <1>5, <2>3, <2>5 DEF TypeOK, SetRef, heap, scan, visit
  <2>7. ShapeOf(m)'
    BY <1>1, <1>5 DEF ShapeOf, SetRef, TypeOK
  <2>8. Shape' /\ Flat'
    BY <1>1, <1>5, <2>3, <2>7, ShapeLocal DEF SetRef, Flat, heap, TypeOK
  <2> QED
    BY <2>6, <2>8 DEF Typed
<1> QED
  BY <1>3, <1>4, <1>5

LEMMA AaddStep ==
  ASSUME Typed, NEW m \in Mutator,
         Aadd(m) \/ AaddTest(m) \/ AaddShade(m) \/ AaddRet(m)
  PROVE  Typed'
<1>1. TypeOK /\ Shape /\ Flat /\ Depth(m) \in Nat
  BY SlotTypes DEF Typed
<1>2. UNCHANGED <<mark_phase, base, gc, scan, visit>>
  BY DEF Aadd, AaddTest, AaddShade, AaddRet
<1>3. Depth(m) > 1 /\ Top2(m) \in Obj /\ Top(m) \notin Ref
  BY <1>1 DEF Aadd, AaddTest, AaddShade, AaddRet, Shape
<1>4. Top(m) \in Value /\ Singleton(Top(m)) \in SUBSET Node
      /\ Singleton(Top(m)) \cap Ref = {}
  BY <1>1, <1>3, SlotTypes, SingletonType DEF Singleton
<1>5. CASE Aadd(m)
  <2>1. holds' \in [Node -> SUBSET Node] /\ Flat'
    BY <1>1, <1>3, <1>4, <1>5, NodeAssumption DEF Aadd, TypeOK, Flat, Node
  <2>2. TypeOK'
    BY <1>1, <1>2, <1>5, <2>1 DEF Aadd, TypeOK, marks, scan, visit
  <2>3. ShapeOf(m)'
    BY <1>1, <1>3, <1>5 DEF Aadd, ShapeOf, TypeOK, Depth, Top, Top2
  <2>4. Shape'
    BY <1>1, <1>2, <1>5, <2>3, ShapeLocal DEF Aadd, TypeOK
  <2> QED
    BY <2>1, <2>2, <2>4 DEF Typed
<1>6. CASE AaddTest(m)
  <2>1. TypeOK' /\ Flat'
    BY <1>1, <1>2, <1>6 DEF AaddTest, TypeOK, Flat, heap, marks, scan, visit
  <2>2. ShapeOf(m)'
    BY <1>1, <1>3, <1>6 DEF AaddTest, ShapeOf, TypeOK, Depth, Top, Top2
  <2>3. Shape'
    BY <1>1, <1>2, <1>6, <2>2, ShapeLocal DEF AaddTest, TypeOK
  <2> QED
    BY <2>1, <2>3 DEF Typed
<1>7. CASE AaddShade(m)
  <2>1. color' \in [Node -> {"white", "gray", "black"}] /\ mark_stack' \in SUBSET Obj
    BY <1>1, <1>4, <1>7, ShadeTypes DEF AaddShade, Shade
  <2>2. TypeOK' /\ Flat'
    BY <1>1, <1>2, <1>7, <2>1 DEF AaddShade, TypeOK, Flat, heap, scan, visit
  <2>3. ShapeOf(m)'
    BY <1>1, <1>3, <1>7 DEF AaddShade, ShapeOf, TypeOK, Depth, Top, Top2
  <2>4. Shape'
    BY <1>1, <1>2, <1>7, <2>3, ShapeLocal DEF AaddShade, TypeOK
  <2> QED
    BY <2>2, <2>4 DEF Typed
<1>8. CASE AaddRet(m)
  <2>1. Depth(m)-2 \in 0..Depth(m)
    BY <1>1, <1>3
  <2>2. /\ stack' \in [Mutator -> Seq(Value)]
        /\ \A j \in Mutator \ {m} : stack'[j] = stack[j]
    BY <1>1, <1>4, <1>8, <2>1, StackReturn DEF AaddRet, Popped
  <2>3. color' \in [Node -> {"white", "gray", "black"}] /\ mark_stack' \in SUBSET Obj
    BY <1>1, <1>4, <1>8, BarrierTypes DEF AaddRet
  <2>4. TypeOK' /\ Flat'
    BY <1>1, <1>2, <1>8, <2>2, <2>3 DEF AaddRet, TypeOK, Flat, heap, scan, visit
  <2>5. ShapeOf(m)'
    BY <1>1, <1>8 DEF AaddRet, ShapeOf, TypeOK
  <2>6. Shape'
    BY <1>1, <1>2, <1>8, <2>2, <2>5, ShapeLocal DEF AaddRet, TypeOK
  <2> QED
    BY <2>4, <2>6 DEF Typed
<1> QED
  BY <1>5, <1>6, <1>7, <1>8

LEMMA BlkenvStep ==
  ASSUME Typed, NEW m \in Mutator, Blkenv(m) \/ BlkenvPop(m)
  PROVE  Typed'
<1>1. TypeOK /\ Shape /\ Flat /\ Depth(m) \in Nat
  BY SlotTypes DEF Typed
<1>2. UNCHANGED <<heap, marks, mark_phase, base, gc, scan, visit>>
  BY DEF Blkenv, BlkenvPop
<1>3. CASE Blkenv(m)
  <2>1. Depth(m)-1 \in 1..Depth(m) /\ Top(m) \in Value
    BY <1>1, <1>3, SlotTypes DEF Blkenv
  <2>2. /\ stack' \in [Mutator -> Seq(Value)]
        /\ \A j \in Mutator \ {m} : stack'[j] = stack[j]
        /\ Len(stack'[m]) = Depth(m)
    BY <1>1, <1>3, <2>1, StackPut DEF Blkenv
  <2>3. TypeOK' /\ Flat'
    BY <1>1, <1>2, <1>3, <2>2 DEF Blkenv, TypeOK, Flat, heap, marks, scan, visit
  <2>4. ShapeOf(m)'
    BY <1>1, <1>3, <2>1, <2>2 DEF Blkenv, ShapeOf, TypeOK, Depth
  <2>5. Shape'
    BY <1>1, <1>2, <1>3, <2>2, <2>4, ShapeLocal DEF Blkenv, TypeOK
  <2> QED
    BY <2>3, <2>5 DEF Typed
<1>4. CASE BlkenvPop(m)
  <2>1. Depth(m)-1 \in 0..Depth(m)
    BY <1>1, <1>4 DEF BlkenvPop, Shape
  <2>2. /\ stack' \in [Mutator -> Seq(Value)]
        /\ \A j \in Mutator \ {m} : stack'[j] = stack[j]
    BY <1>1, <1>4, <2>1, StackCut DEF BlkenvPop, Popped
  <2>3. TypeOK' /\ Flat'
    BY <1>1, <1>2, <1>4, <2>2 DEF BlkenvPop, TypeOK, Flat, heap, marks, scan, visit
  <2>4. ShapeOf(m)'
    BY <1>1, <1>4 DEF BlkenvPop, ShapeOf, TypeOK
  <2>5. Shape'
    BY <1>1, <1>2, <1>4, <2>2, <2>4, ShapeLocal DEF BlkenvPop, TypeOK
  <2> QED
    BY <2>3, <2>5 DEF Typed
<1> QED
  BY <1>3, <1>4

LEMMA CollectorTyped ==
  ASSUME Typed, Collector
  PROVE  Typed'
<1>1. TypeOK /\ Shape /\ Flat
  BY DEF Typed
<1>2. program' = program
  BY DEF Collector, Start, ScanThread, ScanSlot, ScanEnd, SyncPop, SyncShade,
         SyncUnlock, SyncEmpty, Relock, FinalMark, FinalEnd, Sweep
<1>3. Shape'
  BY <1>1, <1>2 DEF program, Shape, Depth, Top, Top2
<1>4. CASE Sweep
  <2>1. inuse' \in SUBSET Node
    BY <1>1, <1>4 DEF Sweep, TypeOK
  <2>2. holds' \in [Node -> SUBSET Node]
    BY <1>1, <1>4 DEF Sweep, TypeOK
  <2>3. TypeOK'
    BY <1>1, <1>2, <1>4, <2>1, <2>2 DEF Sweep, TypeOK, program, marks, scan, visit
  <2>4. Flat'
    BY <1>1, <1>4 DEF Sweep, Flat, TypeOK, Node
  <2> QED
    BY <1>3, <2>3, <2>4 DEF Typed
<1>5. CASE ~Sweep
  <2>1. heap' = heap
    BY <1>5 DEF Collector, Start, ScanThread, ScanSlot, ScanEnd, SyncPop,
       SyncShade, SyncUnlock, SyncEmpty, Relock, FinalMark, FinalEnd
  <2>2. TypeOK'
    <3>1. CASE Start \/ ScanThread \/ ScanEnd
      BY <1>1, <1>2, <2>1, <3>1, SyncAssumption
      DEF Start, ScanThread, ScanEnd, TypeOK, program, heap, marks, scan, visit
    <3>2. CASE ScanSlot
      <4>1. color' \in [Node -> {"white", "gray", "black"}] /\ mark_stack' \in SUBSET Obj
        <5>1. CASE sp <= Len(stack[td]) /\ td # NIL
          <6>1. td \in Mutator /\ sp \in Nat
            BY <1>1, <5>1 DEF TypeOK
          <6>2. PICK v : v = stack[td][sp]
            OBVIOUS
          <6>3. Shade(Singleton(v))
            BY <3>2, <5>1, <6>2 DEF ScanSlot
          <6> QED
            BY <1>1, <6>3, ShadeTypes DEF Shade, ShadedColor, ShadedStack, TypeOK
        <5>2. CASE ~(sp <= Len(stack[td])) /\ td # NIL
          BY <1>1, <3>2, <5>2 DEF ScanSlot, marks, TypeOK
        <5> QED
          BY <3>2, <5>1, <5>2 DEF ScanSlot
      <4>2. td' \in Mutator \cup {NIL} /\ sp' \in Nat
        BY <1>1, <3>2 DEF ScanSlot, TypeOK
      <4> QED
        BY <1>1, <1>2, <2>1, <3>2, <4>1, <4>2
        DEF ScanSlot, TypeOK, program, heap, visit
    <3>3. CASE SyncPop \/ SyncUnlock \/ SyncEmpty \/ Relock \/ FinalEnd
      <4>1. mark_stack \subseteq Node
        BY <1>1 DEF TypeOK, Node
      <4> QED
        BY <1>1, <1>2, <2>1, <3>3, <4>1
        DEF SyncPop, SyncUnlock, SyncEmpty, Relock, FinalEnd, TypeOK, program,
            heap, marks, scan, visit
    <3>4. CASE SyncShade
      <4>1. PICK x \in todo :
              /\ todo' = todo \ {x}
              /\ IF x \in holds[cur] THEN Shade({x}) ELSE UNCHANGED marks
        BY <3>4 DEF SyncShade
      <4>2. {x} \in SUBSET Node
        BY <1>1, <4>1 DEF TypeOK
      <4>3. color' \in [Node -> {"white", "gray", "black"}] /\ mark_stack' \in SUBSET Obj
        BY <1>1, <4>1, <4>2, ShadeTypes DEF Shade, marks, TypeOK
      <4> QED
        BY <1>1, <1>2, <2>1, <3>4, <4>1, <4>3
        DEF SyncShade, TypeOK, program, heap, scan
    <3>5. CASE FinalMark
      <4>1. PICK o \in mark_stack :
              /\ color' = [ShadedColor(holds[o]) EXCEPT ![o] = "black"]
              /\ mark_stack' = ShadedStack(holds[o]) \ {o}
        BY <3>5 DEF FinalMark
      <4>2. holds[o] \in SUBSET Node
        BY <1>1, <4>1 DEF TypeOK, Node
      <4>3. color' \in [Node -> {"white", "gray", "black"}] /\ mark_stack' \in SUBSET Obj
        BY <1>1, <4>1, <4>2, ShadeTypes
      <4> QED
        BY <1>1, <1>2, <2>1, <3>5, <4>3
        DEF FinalMark, TypeOK, program, heap, scan, visit
    <3> QED
      BY <1>5, <3>1, <3>2, <3>3, <3>4, <3>5 DEF Collector
  <2> QED
    BY <1>1, <1>3, <2>1, <2>2 DEF Typed, Flat, heap
<1> QED
  BY <1>4, <1>5

LEMMA NextTyped == Typed /\ [Next]_vars => Typed'
<1> SUFFICES ASSUME Typed, [Next]_vars PROVE Typed'
  OBVIOUS
<1>1. CASE Collector
  BY <1>1, CollectorTyped
<1>2. ASSUME NEW m \in Mutator, Operation(m) PROVE Typed'
  BY <1>2, StackStep, ElementStep, CreateStep, ReferenceStep, AaddStep,
     BlkenvStep DEF Operation
<1>3. CASE UNCHANGED vars
  BY <1>3 DEF vars, heap, marks, program, scan, visit, Typed, TypeOK, Shape,
     Flat, Depth, Top, Top2
<1> QED
  BY <1>1, <1>2, <1>3 DEF Next

(* In every mode and for every program the variables keep their types.      *)
THEOREM TypeCorrect == Spec => []TypeOK
<1>1. Typed => TypeOK
  BY DEF Typed
<1> QED
  BY <1>1, InitTyped, NextTyped, PTL DEF Spec

-----------------------------------------------------------------------------
(* The program keeps to the loads the barrier covers: no blkenv, and with   *)
(* CCC_MARKSYNC=enabled no push out of a captured variable (Push).          *)
LoadsShaded == "blkenv" \notin Ops /\ (Marksync => "push" \notin Ops)

-----------------------------------------------------------------------------
(* The inductive invariant.                                                 *)

(* The barrier is on while mark_lk works, which visits one object at a time.*)
Phases ==
  /\ gc \in {"sync", "relock"} => Marksync
  /\ mark_phase <=> gc \in {"sync", "relock"}
  /\ cur # NIL => gc = "sync"
  /\ cur = NIL => todo = {}
  /\ \A m \in Mutator : pc[m] # "moved"

(* Neither a stack nor an object in use holds something free.               *)
StacksInUse == \A m \in Mutator : Slots(m) \subseteq inuse \cup {NIL}
HeapInUse == Closed(inuse)

(* Between two cycles everything in use is black, so that an aadd that      *)
(* began under the barrier and shades its element late shades nothing.      *)
IdleBlack == gc = "idle" => \A x \in inuse : color[x] = "black"

(* A gray object is on the mark stack, and there are none after marking.    *)
GrayStacked ==
  \A x \in Node : color[x] = "gray" =>
    gc \in {"scan", "sync", "relock", "final"} /\ x \in mark_stack

(* Scanning alone blackens strings and references only.                     *)
NoneVisited == gc = "scan" => \A o \in Obj : color[o] # "black"

(* From the first slot scanned to the sweep nothing black holds something   *)
(* white, except the object being visited.                                  *)
BlackClosed ==
  gc # "idle" =>
    \A x \in Node : color[x] = "black" =>
      \A y \in holds[x] : color[y] # "white" \/ (x = cur /\ y \in todo)

(* A slot behind the scan is not white: what is there was there when it was *)
(* scanned, because a stack can only shrink.                                *)
Scanned ==
  gc = "scan" =>
    \A m \in Mutator \ toscan : \A i \in 1..Depth(m) :
      (m = td => i < sp) /\ stack[m][i] # NIL => color[stack[m][i]] # "white"

(* After the scan no stack holds something white.                           *)
StacksMarked ==
  gc \in {"sync", "relock", "final", "sweep"} =>
    \A m \in Mutator : \A v \in Slots(m) : v # NIL => color[v] # "white"

Safe ==
  /\ Typed /\ Phases
  /\ StacksInUse /\ HeapInUse
  /\ IdleBlack /\ GrayStacked /\ NoneVisited /\ BlackClosed
  /\ Scanned /\ StacksMarked

LEMMA SafeLive == Safe => LiveKept /\ NoGrayLeft /\ TriColor
<1> SUFFICES ASSUME Safe PROVE LiveKept /\ NoGrayLeft /\ TriColor
  OBVIOUS
<1>1. inuse \in SUBSET Node
  BY DEF Safe, Typed, TypeOK
<1>2. Roots \subseteq inuse
  <2> SUFFICES ASSUME NEW v \in Roots PROVE v \in inuse
    OBVIOUS
  <2>1. PICK m \in Mutator : v \in Slots(m)
    BY DEF Roots
  <2>2. Slots(m) \subseteq inuse \cup {NIL}
    BY DEF Safe, StacksInUse
  <2> QED
    BY <2>1, <2>2 DEF Roots
<1>3. LiveKept
  BY <1>1, <1>2 DEF LiveKept, Reachable, Safe, HeapInUse
<1>4. NoGrayLeft
  BY DEF NoGrayLeft, Safe, GrayStacked
<1>5. TriColor
  BY <1>1 DEF TriColor, Safe, BlackClosed, Phases
<1> QED
  BY <1>3, <1>4, <1>5

LEMMA InitSafe == Init => Safe
<1> SUFFICES ASSUME Init PROVE Safe
  OBVIOUS
<1>1. Typed
  BY InitTyped
<1>2. First \in Node /\ First # NIL
  BY NodeAssumption DEF Node
<1>3. \A m \in Mutator : Slots(m) = {First}
  <2> SUFFICES ASSUME NEW m \in Mutator PROVE Slots(m) = {First}
    OBVIOUS
  <2>1. stack[m] = <<First>>
    BY DEF Init
  <2>2. Depth(m) = 1 /\ stack[m][1] = First
    BY <2>1 DEF Depth
  <2>3. 1..Depth(m) = {1}
    BY <2>2
  <2> QED
    BY <2>2, <2>3 DEF Slots
<1>4. Phases
  BY DEF Init, Phases
<1>5. StacksInUse /\ HeapInUse
  BY <1>2, <1>3 DEF Init, StacksInUse, HeapInUse, Closed
<1>6. IdleBlack /\ GrayStacked
  BY <1>2 DEF Init, IdleBlack, GrayStacked
<1>7. NoneVisited /\ BlackClosed /\ Scanned /\ StacksMarked
  BY DEF Init, NoneVisited, BlackClosed, Scanned, StacksMarked
<1> QED
  BY <1>1, <1>4, <1>5, <1>6, <1>7 DEF Safe

-----------------------------------------------------------------------------
(* What shading does.                                                       *)

(* Shading darkens: what it is given is not white afterwards, a new gray    *)
(* object is on the mark stack, and a string or a reference that becomes    *)
(* black holds nothing white, because the value of a reference is shaded    *)
(* together with it.                                                        *)
LEMMA ShadeSafe ==
  ASSUME Typed, NEW S \in SUBSET Node
  PROVE  /\ ShadedColor(S) \in [Node -> {"white", "gray", "black"}]
         /\ ShadedColor({}) = color /\ ShadedStack({}) = mark_stack
         /\ \A x \in Node : color[x] # "white" => ShadedColor(S)[x] # "white"
         /\ \A x \in Node : color[x] = "black" => ShadedColor(S)[x] = "black"
         /\ \A x \in S : ShadedColor(S)[x] # "white"
         /\ \A x \in Node : ShadedColor(S)[x] = "gray" =>
              x \in ShadedStack(S) \/ color[x] = "gray"
         /\ mark_stack \subseteq ShadedStack(S)
         /\ \A x \in Obj : ShadedColor(S)[x] = "black" => color[x] = "black"
         /\ \A x \in Node : ShadedColor(S)[x] = "black" =>
              \/ color[x] = "black"
              \/ \A y \in holds[x] : ShadedColor(S)[y] # "white"
<1>1. /\ color \in [Node -> {"white", "gray", "black"}]
      /\ holds \in [Node -> SUBSET Node]
      /\ \A r \in Ref : holds[r] \cap Ref = {}
      /\ \A s \in Leaf : holds[s] = {}
  BY DEF Typed, TypeOK, Flat
<1>2. \A x \in Node : ShadedColor(S)[x] =
        IF x \in Obj \cap Deref(S) /\ color[x] = "white" THEN "gray"
        ELSE IF x \in (Leaf \cup Ref) \cap Deref(S) THEN "black"
        ELSE color[x]
  BY DEF ShadedColor
<1>3. S \subseteq Deref(S)
  BY DEF Deref
<1>4. \A x \in Deref(S) \cap Node : ShadedColor(S)[x] # "white"
  BY <1>2 DEF Node
<1>5. \A x \in Node : ShadedColor(S)[x] = "gray" =>
        x \in ShadedStack(S) \/ color[x] = "gray"
  BY <1>2 DEF ShadedStack
<1>6. \A x \in Obj : ShadedColor(S)[x] = "black" => color[x] = "black"
  BY <1>2, NodeAssumption DEF Node
<1>7. ASSUME NEW x \in Node, ShadedColor(S)[x] = "black", color[x] # "black",
             NEW y \in holds[x]
      PROVE  ShadedColor(S)[y] # "white"
  <2>1. x \in Ref /\ x \in Deref(S)
    BY <1>1, <1>2, <1>7
  <2>2. x \in S
    BY <1>1, <2>1 DEF Deref
  <2>3. y \in Deref(S) /\ y \in Node
    BY <1>1, <2>1, <2>2 DEF Deref
  <2> QED
    BY <1>4, <2>3
<1>8. ShadedColor({}) = color /\ ShadedStack({}) = mark_stack
  <2>1. Deref({}) = {}
    BY DEF Deref
  <2> QED
    BY <1>1, <2>1 DEF ShadedColor, ShadedStack
<1>9. ShadedColor(S) \in [Node -> {"white", "gray", "black"}]
  BY <1>1 DEF ShadedColor
<1> QED
  BY <1>1, <1>2, <1>3, <1>4, <1>5, <1>6, <1>7, <1>8, <1>9 DEF ShadedStack

-----------------------------------------------------------------------------
(* What a step of a thread does to the heap, whichever operation it is.     *)

(* What a thread reaches with at most two steps from a slot.                *)
Near(m) ==
  LET one == UNION {holds[x] : x \in Slots(m) \cap Node}
  IN Slots(m) \cup one \cup UNION {holds[r] : r \in one \cap Ref}

(* New nodes are black and filled from the stack; an element stored comes   *)
(* from the stack, a value loaded from nearby, and under the barrier it is  *)
(* shaded; under the locks of the collector references stay as they are and *)
(* the stack can only shrink.                                               *)
Effect(m, fresh, S) ==
  /\ fresh \in SUBSET (Node \ inuse)
  /\ S \in SUBSET Node
  /\ inuse' = inuse \cup fresh
  /\ color' = [x \in Node |-> IF x \in fresh THEN "black" ELSE ShadedColor(S)[x]]
  /\ mark_stack' = ShadedStack(S)
  /\ mark_phase \/ S \subseteq Slots(m) \ Ref
  /\ \A x \in Node \ fresh : holds'[x] \subseteq holds[x] \cup Slots(m)
  /\ \A x \in fresh : holds'[x] \subseteq Slots(m)
  /\ Slots(m)' \subseteq Near(m) \cup fresh \cup {NIL}
  /\ mark_phase => Slots(m)' \subseteq Slots(m) \cup fresh \cup S \cup {NIL}
  /\ ~Unlocked =>
       /\ fresh = {}
       /\ \A x \in Ref \cup Leaf : holds'[x] = holds[x]
       /\ Depth(m)' <= Depth(m)
       /\ \A i \in 1..Depth(m)' : stack'[m][i] = stack[m][i]
  /\ \A k \in Mutator \ {m} : stack'[k] = stack[k] /\ pc'[k] = pc[k]
  /\ pc'[m] # "moved"
  /\ UNCHANGED <<mark_phase, gc, scan, visit>>

(* What a thread reaches is in use, and in the sweep it is marked.          *)
LEMMA NearSafe ==
  ASSUME Safe, NEW m \in Mutator
  PROVE  /\ Near(m) \subseteq inuse \cup {NIL}
         /\ gc = "sweep" => \A v \in Near(m) : v # NIL => color[v] # "white"
<1>1. inuse \subseteq Node /\ holds \in [Node -> SUBSET Node]
      /\ color \in [Node -> {"white", "gray", "black"}]
  BY DEF Safe, Typed, TypeOK
<1>2. Slots(m) \subseteq inuse \cup {NIL} /\ \A x \in inuse : holds[x] \subseteq inuse
  BY DEF Safe, StacksInUse, HeapInUse, Closed
<1>3. Slots(m) \cap Node \subseteq inuse
  BY <1>2, NodeAssumption
<1> DEFINE one == UNION {holds[x] : x \in Slots(m) \cap Node}
<1>4. one \subseteq inuse
  BY <1>2, <1>3
<1>5. UNION {holds[r] : r \in one \cap Ref} \subseteq inuse
  BY <1>2, <1>4
<1>6. ASSUME gc = "sweep" PROVE \A v \in Near(m) : v # NIL => color[v] # "white"
  <2>1. \A x \in Node : color[x] # "gray"
    BY <1>6 DEF Safe, GrayStacked
  <2>2. \A x \in Node : color[x] # "white" => \A y \in holds[x] : color[y] # "white"
    BY <1>1, <1>6, <2>1 DEF Safe, BlackClosed, Phases
  <2>3. \A v \in Slots(m) : v # NIL => color[v] # "white"
    BY <1>6 DEF Safe, StacksMarked
  <2>4. \A v \in one : color[v] # "white"
    BY <2>2, <2>3, NodeAssumption
  <2>5. one \subseteq Node
    BY <1>1, <1>4
  <2>6. \A v \in UNION {holds[r] : r \in one \cap Ref} : color[v] # "white"
    BY <2>2, <2>4, <2>5
  <2> QED
    BY <2>3, <2>4, <2>6 DEF Near
<1> QED
  BY <1>2, <1>4, <1>5, <1>6 DEF Near

(* Between the cycles and in the sweep an operation makes nothing gray.     *)
LEMMA NothingToShade ==
  ASSUME Safe, NEW m \in Mutator, NEW S \in SUBSET Node,
         mark_phase \/ S \subseteq Slots(m) \ Ref,
         gc \in {"idle", "sweep"},
         NEW x \in Node, ShadedColor(S)[x] = "gray"
  PROVE  FALSE
<1>1. color \in [Node -> {"white", "gray", "black"}] /\ color[x] # "gray"
  BY DEF Safe, Typed, TypeOK, GrayStacked
<1>2. S \subseteq Slots(m) \ Ref
  BY DEF Safe, Phases
<1>3. Deref(S) = S
  BY <1>2 DEF Deref
<1>4. x \in S /\ color[x] = "white"
  BY <1>1, <1>3 DEF ShadedColor
<1>5. x \in Slots(m) /\ x # NIL
  BY <1>2, <1>4, NodeAssumption
<1>6. CASE gc = "idle"
  BY <1>4, <1>5, <1>6 DEF Safe, StacksInUse, IdleBlack
<1>7. CASE gc = "sweep"
  BY <1>4, <1>5, <1>7 DEF Safe, StacksMarked
<1> QED
  BY <1>6, <1>7

LEMMA EffectSafe ==
  ASSUME Safe, Typed', NEW m \in Mutator, NEW fresh, NEW S, Effect(m, fresh, S)
  PROVE  Safe'
<1> DEFINE c == ShadedColor(S)
<1>1. /\ inuse \subseteq Node
      /\ holds \in [Node -> SUBSET Node] /\ holds' \in [Node -> SUBSET Node]
      /\ color \in [Node -> {"white", "gray", "black"}]
      /\ fresh \subseteq Node \ inuse /\ S \in SUBSET Node
      /\ cur \in Obj \cup {NIL}
      /\ mark_phase \/ S \subseteq Slots(m) \ Ref
  BY DEF Safe, Typed, TypeOK, Effect
<1>2. /\ mark_phase' = mark_phase /\ gc' = gc /\ cur' = cur /\ todo' = todo
      /\ toscan' = toscan /\ td' = td /\ sp' = sp
      /\ inuse' = inuse \cup fresh
      /\ \A k \in Mutator \ {m} : stack'[k] = stack[k] /\ pc'[k] = pc[k]
  BY DEF Effect, scan, visit
<1>3. /\ \A x \in Node : color[x] # "white" => c[x] # "white"
      /\ \A x \in Node : color[x] = "black" => c[x] = "black"
      /\ \A x \in S : c[x] # "white"
      /\ \A x \in Node : c[x] = "gray" => x \in mark_stack' \/ color[x] = "gray"
      /\ mark_stack \subseteq mark_stack'
      /\ \A x \in Obj : c[x] = "black" => color[x] = "black"
      /\ \A x \in Node : c[x] = "black" =>
           \/ color[x] = "black"
           \/ \A y \in holds[x] : c[y] # "white"
  <2>1. mark_stack' = ShadedStack(S) /\ Typed
    BY DEF Effect, Safe
  <2> QED
    BY <1>1, <2>1, ShadeSafe
<1>4. /\ \A x \in Node \ fresh : color'[x] = c[x]
      /\ \A x \in fresh : color'[x] = "black"
      /\ \A x \in Node : c[x] # "white" => color'[x] # "white"
  BY <1>1 DEF Effect
<1> HIDE DEF c
<1>5. \A x \in Node : color[x] # "white" => color'[x] # "white"
  BY <1>3, <1>4
<1>6. \A k \in Mutator \ {m} : Slots(k)' = Slots(k) /\ Depth(k)' = Depth(k)
  BY <1>2 DEF Slots, Depth
<1>7. /\ Slots(m)' \subseteq Near(m) \cup fresh \cup {NIL}
      /\ mark_phase => Slots(m)' \subseteq Slots(m) \cup fresh \cup S \cup {NIL}
  BY DEF Effect
<1>8. ~Unlocked => /\ fresh = {}
                   /\ \A x \in Ref \cup Leaf : holds'[x] = holds[x]
                   /\ Depth(m)' <= Depth(m)
                   /\ \A i \in 1..Depth(m)' : stack'[m][i] = stack[m][i]
  BY DEF Effect
<1>9. Slots(m) \subseteq inuse \cup {NIL}
  BY DEF Safe, StacksInUse
<1>10. /\ \A x \in Node \ fresh : holds'[x] \subseteq holds[x] \cup Slots(m)
       /\ \A x \in fresh : holds'[x] \subseteq Slots(m)
       /\ \A x \in Node : NIL \notin holds'[x]
  BY <1>1, NodeAssumption DEF Effect
<1>11. Depth(m) \in Nat /\ Depth(m)' \in Nat
  BY SlotTypes DEF Safe, Typed, TypeOK, Depth
<1>12. ~Unlocked => Slots(m)' \subseteq Slots(m)
  BY <1>8, <1>11 DEF Slots
<1>13. Phases'
  BY <1>2 DEF Safe, Phases, Effect
<1>14. StacksInUse'
  BY <1>2, <1>6, <1>7, NearSafe DEF Safe, StacksInUse
<1>15. HeapInUse'
  BY <1>1, <1>2, <1>9, <1>10 DEF Safe, HeapInUse, Closed
<1>16. IdleBlack'
  BY <1>1, <1>2, <1>3, <1>4 DEF Safe, IdleBlack
<1>17. GrayStacked'
  <2> SUFFICES ASSUME NEW x \in Node, color'[x] = "gray"
               PROVE  gc \in {"scan", "sync", "relock", "final"} /\ x \in mark_stack'
    BY <1>2 DEF GrayStacked
  <2>1. x \notin fresh /\ c[x] = "gray"
    BY <1>4
  <2>2. gc \notin {"idle", "sweep"}
    BY <1>1, <2>1, NothingToShade DEF c
  <2>3. gc \in {"idle", "scan", "sync", "relock", "final", "sweep"}
    BY DEF Safe, Typed, TypeOK
  <2>4. x \in mark_stack'
    BY <1>3, <2>1 DEF Safe, GrayStacked
  <2> QED
    BY <2>2, <2>3, <2>4
<1>18. NoneVisited'
  BY <1>2, <1>3, <1>4, <1>8 DEF Safe, NoneVisited, Unlocked, Node
<1>19. BlackClosed'
  <2> SUFFICES ASSUME gc # "idle", NEW x \in Node, color'[x] = "black",
                      NEW y \in holds'[x], ~(x = cur /\ y \in todo)
               PROVE  color'[y] # "white"
    BY <1>2 DEF BlackClosed
  <2>1. y \in Node /\ y # NIL
    BY <1>1, <1>10
  <2>2. x \notin fresh /\ y \in holds[x] => color'[y] # "white"
    <3>1. x \notin fresh => c[x] = "black"
      BY <1>4
    <3>2. color[x] = "black" /\ y \in holds[x] => color[y] # "white"
      BY DEF Safe, BlackClosed
    <3> QED
      BY <1>3, <1>4, <2>1, <3>1, <3>2
  <2>3. CASE gc = "scan"
    <3>1. x \notin fresh /\ holds'[x] = holds[x]
      BY <1>2, <1>8, <1>18, <2>3 DEF Unlocked, NoneVisited, Node
    <3> QED
      BY <2>2, <3>1
  <2>4. CASE gc # "scan"
    <3>1. gc \in {"sync", "relock", "final", "sweep"}
      BY <2>4 DEF Safe, Typed, TypeOK
    <3>2. y \in Slots(m) => color[y] # "white"
      BY <2>1, <3>1 DEF Safe, StacksMarked
    <3> QED
      BY <1>5, <1>10, <2>1, <2>2, <3>2
  <2> QED
    BY <2>3, <2>4
<1>20. Scanned'
  <2> SUFFICES ASSUME gc = "scan", NEW k \in Mutator \ toscan,
                      NEW i \in 1..Depth(k)', k = td => i < sp,
                      stack'[k][i] # NIL
               PROVE  color'[stack'[k][i]] # "white"
    BY <1>2 DEF Scanned
  <2>1. i \in 1..Depth(k) /\ stack'[k][i] = stack[k][i]
    BY <1>2, <1>6, <1>8, <1>11 DEF Unlocked
  <2>2. color[stack[k][i]] # "white"
    BY <2>1 DEF Safe, Scanned
  <2>3. stack[k][i] \in Node
    BY <2>1, SlotTypes DEF Safe, Typed, Value
  <2> QED
    BY <1>5, <2>1, <2>2, <2>3
<1>21. StacksMarked'
  <2> SUFFICES ASSUME gc \in {"sync", "relock", "final", "sweep"},
                      NEW k \in Mutator, NEW v \in Slots(k)', v # NIL
               PROVE  color'[v] # "white"
    BY <1>2 DEF StacksMarked
  <2>1. v \in Node
    BY <1>1, <1>2, <1>14 DEF StacksInUse
  <2>2. \A j \in Mutator : v \in Slots(j) => color'[v] # "white"
    BY <1>5, <2>1 DEF Safe, StacksMarked
  <2>3. CASE k # m
    BY <1>6, <2>2, <2>3
  <2>4. CASE k = m /\ gc \in {"sync", "relock"}
    <3>1. v \in Slots(m) \cup fresh \cup S
      BY <1>7, <2>4 DEF Safe, Phases
    <3> QED
      BY <1>3, <1>4, <2>1, <2>2, <3>1
  <2>5. CASE k = m /\ gc = "final"
    BY <1>12, <2>2, <2>5 DEF Unlocked
  <2>6. CASE k = m /\ gc = "sweep"
    <3>1. v \in fresh \/ v \in Near(m)
      BY <1>7, <2>6
    <3> QED
      BY <1>4, <1>5, <2>1, <2>6, <3>1, NearSafe
  <2> QED
    BY <2>3, <2>4, <2>5, <2>6
<1> QED
  BY <1>13, <1>14, <1>15, <1>16, <1>17, <1>18, <1>19, <1>20, <1>21 DEF Safe

-----------------------------------------------------------------------------
(* Every operation has this effect.                                         *)

(* What an operation shades: under the barrier any value, without it (in an *)
(* aadd that began under it) only what is on the stack.                     *)
Shading(m, S) ==
  /\ S \in SUBSET Node
  /\ color' = ShadedColor(S)
  /\ mark_stack' = ShadedStack(S)
  /\ mark_phase \/ S \subseteq Slots(m) \ Ref

(* The barrier shades what is stored while it is on.                        *)
LEMMA BarrierShades ==
  ASSUME Safe, NEW m \in Mutator, NEW v \in Value, Barrier(Singleton(v))
  PROVE  \E S : Shading(m, S) /\ (mark_phase => Singleton(v) \subseteq S)
<1>1. Singleton(v) \in SUBSET Node
  BY SingletonType
<1>2. CASE mark_phase
  BY <1>1, <1>2 DEF Barrier, Shade, Shading
<1>3. CASE ~mark_phase
  <2>1. Shading(m, {})
    BY <1>3, ShadeSafe DEF Safe, Barrier, Shading, marks
  <2> QED
    BY <1>3, <2>1
<1> QED
  BY <1>2, <1>3

LEMMA ShadesNothing ==
  ASSUME Safe, NEW m \in Mutator, UNCHANGED marks
  PROVE  Shading(m, {})
  BY ShadeSafe DEF Safe, Shading, marks

(* With nothing new the colors are what was shaded.                         *)
LEMMA ColorsShaded ==
  ASSUME Safe, NEW m \in Mutator, NEW S, Shading(m, S)
  PROVE  color' = [x \in Node |-> IF x \in {} THEN "black" ELSE ShadedColor(S)[x]]
<1>1. ShadedColor(S) \in [Node -> {"white", "gray", "black"}]
  BY ShadeSafe DEF Safe, Shading
<1> QED
  BY <1>1 DEF Shading

(* Something new is black, and the other colors stay.                       *)
LEMMA ColorsFresh ==
  ASSUME Safe, NEW x \in Node, UNCHANGED mark_stack,
         color' = [color EXCEPT ![x] = "black"]
  PROVE  /\ color' = [y \in Node |-> IF y \in {x} THEN "black" ELSE ShadedColor({})[y]]
         /\ mark_stack' = ShadedStack({})
<1>1. ShadedColor({}) = color /\ ShadedStack({}) = mark_stack
  BY ShadeSafe DEF Safe
<1>2. color \in [Node -> {"white", "gray", "black"}]
  BY DEF Safe, Typed, TypeOK
<1> QED
  BY <1>1, <1>2

(* Steps that leave the heap alone and load nothing from afar.              *)
LEMMA PlainEffect ==
  ASSUME Safe, NEW m \in Mutator, NEW S, Shading(m, S),
         UNCHANGED <<heap, mark_phase, gc, scan, visit>>,
         Slots(m)' \subseteq Near(m) \cup {NIL},
         mark_phase => Slots(m)' \subseteq Slots(m) \cup S \cup {NIL},
         ~Unlocked => /\ Depth(m)' <= Depth(m)
                      /\ \A i \in 1..Depth(m)' : stack'[m][i] = stack[m][i],
         \A k \in Mutator \ {m} : stack'[k] = stack[k] /\ pc'[k] = pc[k],
         pc'[m] # "moved"
  PROVE  Effect(m, {}, S)
<1>1. color' = [x \in Node |-> IF x \in {} THEN "black" ELSE ShadedColor(S)[x]]
  BY ColorsShaded
<1> QED
  BY <1>1 DEF Effect, Shading, heap

LEMMA NearParts ==
  ASSUME NEW m \in Mutator
  PROVE  /\ Slots(m) \subseteq Near(m)
         /\ \A x \in Slots(m) \cap Node : holds[x] \subseteq Near(m)
         /\ Loads(m) \subseteq Near(m)
<1>1. Slots(m) \subseteq Near(m)
  BY DEF Near
<1>2. \A x \in Slots(m) \cap Node : holds[x] \subseteq Near(m)
  BY DEF Near
<1>3. Obj \subseteq Node /\ Ref \subseteq Node
  BY DEF Node
<1>4. Loads(m) \subseteq Near(m)
  BY <1>3 DEF Near, Loads
<1> QED
  BY <1>1, <1>2, <1>4

(* Where the slots of a changed stack come from.                            *)
LEMMA SlotsFrom ==
  ASSUME TypeOK, TypeOK', NEW m \in Mutator, NEW X,
         \A i \in 1..Depth(m)' : stack'[m][i] \in X
  PROVE  Slots(m)' \subseteq X
  BY DEF Slots

LEMMA SlotsPut ==
  ASSUME TypeOK, NEW m \in Mutator, NEW v \in Value, NEW k \in 1..Depth(m),
         stack' = [stack EXCEPT ![m][k] = v]
  PROVE  Slots(m)' \subseteq Slots(m) \cup {v}
<1>1. Len(stack'[m]) = Depth(m)
  BY StackPut
<1>2. stack'[m][k] = v
  BY StackPut
<1>3. \A i \in 1..Depth(m) : i # k => stack'[m][i] = stack[m][i]
  BY StackPut
<1> QED
  BY <1>1, <1>2, <1>3 DEF Slots, Depth

LEMMA SlotsReturn ==
  ASSUME TypeOK, NEW m \in Mutator, NEW k \in 0..Depth(m), NEW v \in Slots(m),
         stack' = [stack EXCEPT ![m] = Append(SubSeq(stack[m], 1, k), v)]
  PROVE  /\ Slots(m)' \subseteq Slots(m)
         /\ \A j \in Mutator \ {m} : stack'[j] = stack[j]
<1>1. v \in Value /\ Depth(m) \in Nat
  BY SlotTypes
<1>2. /\ stack' \in [Mutator -> Seq(Value)]
      /\ \A j \in Mutator \ {m} : stack'[j] = stack[j]
      /\ Len(stack'[m]) = k+1
      /\ stack'[m][k+1] = v
      /\ \A i \in 1..k : stack'[m][i] = stack[m][i]
  BY <1>1, StackReturn, Zenon
<1>3. stack'[m][k+1] = v
  BY <1>2
<1>4. \A i \in 1..k : stack'[m][i] = stack[m][i]
  BY <1>2
<1>5. \A j \in Mutator \ {m} : stack'[j] = stack[j]
  BY <1>2
<1>6. \A i \in 1..k+1 : stack'[m][i] \in Slots(m)
  <2> SUFFICES ASSUME NEW i \in 1..k+1 PROVE stack'[m][i] \in Slots(m)
    OBVIOUS
  <2>1. CASE i = k+1
    BY <1>3, <2>1
  <2>2. CASE i # k+1
    <3>1. i \in 1..k /\ i \in 1..Depth(m)
      BY <1>1, <2>2
    <3> QED
      BY <1>4, <3>1 DEF Slots
  <2> QED
    BY <2>1, <2>2
<1> QED
  BY <1>2, <1>5, <1>6 DEF Slots, Depth

LEMMA StackEffect ==
  ASSUME LoadsShaded, Safe, Typed', NEW m \in Mutator, Push(m) \/ PushLocal(m) \/ Pop(m)
  PROVE  Effect(m, {}, {})
<1>1. TypeOK /\ TypeOK' /\ Depth(m) \in Nat /\ pc[m] = "run"
      /\ \A i \in 1..Depth(m) : stack[m][i] \in Slots(m)
  BY SlotTypes DEF Safe, Typed, Push, PushLocal, Pop, Uses, Slots
<1>2. Shading(m, {}) /\ Slots(m) \subseteq Near(m)
  BY ShadesNothing, NearParts DEF Push, PushLocal, Pop
<1>3. CASE Push(m) \/ PushLocal(m)
  <2>1. PICK v \in Loads(m) \cup Slots(m) :
               /\ stack' = [stack EXCEPT ![m] = Append(@, v)]
               /\ mark_phase => v \in Slots(m)
    <3>1. mark_phase => ~Push(m)
      BY DEF LoadsShaded, Safe, Phases, Push, Uses
    <3> QED
      BY <1>3, <3>1 DEF Push, PushLocal
  <2>2. Unlocked /\ v \in Near(m)
    BY <1>3, <2>1, NearParts DEF Push, PushLocal
  <2>3. Slots(m) \subseteq Value /\ holds \in [Node -> SUBSET Node]
    BY <1>1, SlotTypes DEF TypeOK
  <2>4. v \in Value
    BY <2>1, <2>3 DEF Loads, Value, Node
  <2>5. /\ \A k \in Mutator \ {m} : stack'[k] = stack[k]
        /\ Depth(m)' = Depth(m) + 1
        /\ stack'[m][Depth(m)+1] = v
        /\ \A i \in 1..Depth(m) : stack'[m][i] = stack[m][i]
    BY <1>1, <2>1, <2>4, StackPush DEF Depth
  <2>6. \A i \in 1..Depth(m)' : stack'[m][i] \in Near(m)
    BY <1>1, <2>2, <2>5, NearParts
  <2>7. Slots(m)' \subseteq Near(m)
    BY <1>1, <2>6, SlotsFrom
  <2>8. v \in Slots(m) => Slots(m)' \subseteq Slots(m)
    <3> SUFFICES ASSUME v \in Slots(m) PROVE Slots(m)' \subseteq Slots(m)
      OBVIOUS
    <3>1. \A i \in 1..Depth(m)' : stack'[m][i] \in Slots(m)
      BY <1>1, <2>5
    <3> QED
      BY <1>1, <3>1, SlotsFrom
  <2>9. UNCHANGED <<heap, mark_phase, gc, scan, visit>> /\ pc' = pc
    BY <1>3 DEF Push, PushLocal
  <2> QED
    BY <1>2, <1>1, <2>2, <2>1, <2>5, <2>7, <2>8, <2>9, PlainEffect
<1>4. CASE Pop(m)
  <2>1. Depth(m)-1 \in 0..Depth(m)
    BY <1>1, <1>4 DEF Pop
  <2>2. /\ \A k \in Mutator \ {m} : stack'[k] = stack[k]
        /\ Depth(m)' = Depth(m)-1
        /\ \A i \in 1..Depth(m)-1 : stack'[m][i] = stack[m][i]
    BY <1>1, <1>4, <2>1, StackCut DEF Pop, Popped, Depth
  <2>3. \A i \in 1..Depth(m)' : stack'[m][i] \in Slots(m)
    BY <1>1, <2>2
  <2>4. Slots(m)' \subseteq Slots(m)
    BY <1>1, <2>3, SlotsFrom
  <2>5. Slots(m)' \subseteq Near(m)
    BY <1>2, <2>4
  <2> QED
    BY <1>2, <1>1, <1>4, <2>2, <2>4, <2>5, PlainEffect DEF Pop
<1> QED
  BY <1>3, <1>4

LEMMA ElementEffect ==
  ASSUME Safe, Typed', NEW m \in Mutator,
         Index(m) \/ Store(m) \/ Assign(m) \/ Remove(m)
  PROVE  \E S : Effect(m, {}, S)
<1>1. /\ TypeOK /\ TypeOK' /\ Depth(m) \in Nat /\ pc[m] = "run"
      /\ \A i \in 1..Depth(m) : stack[m][i] \in Slots(m)
      /\ color \in [Node -> {"white", "gray", "black"}]
      /\ holds \in [Node -> SUBSET Node]
  BY SlotTypes DEF Safe, Typed, TypeOK, Index, Store, Assign, Remove, Uses, Slots
<1>2. Obj \subseteq Node /\ Ref \subseteq Node
  BY DEF Node
<1>3. CASE Index(m)
  <2>1. PICK v \in (holds[Top(m)] \ Ref) \cup {NIL} :
          stack' = [stack EXCEPT ![m][Depth(m)] = v] /\ Barrier(Singleton(v))
    BY <1>3 DEF Index
  <2>2. Depth(m) \in 1..Depth(m) /\ Top(m) \in Slots(m) /\ Top(m) \in Obj
    BY <1>1, <1>3 DEF Index, Top
  <2>3. v \in Near(m) \cup {NIL} /\ v \in Value
    BY <1>1, <1>2, <2>2, NearParts DEF Value
  <2>4. PICK d \in 1..Depth(m) : d = Depth(m)
    BY <2>2
  <2>5. TypeOK /\ v \in Value /\ stack' = [stack EXCEPT ![m][d] = v]
    BY <1>1, <2>1, <2>3, <2>4
  <2>6. \A k \in Mutator \ {m} : stack'[k] = stack[k]
    BY <2>5, StackPut
  <2>7. Slots(m)' \subseteq Slots(m) \cup {v}
    BY <2>5, SlotsPut
  <2>8. Slots(m)' \subseteq Near(m) \cup {NIL}
    BY <2>3, <2>7, NearParts
  <2>9. PICK S : Shading(m, S) /\ (mark_phase => Singleton(v) \subseteq S)
    BY <2>1, <2>3, BarrierShades
  <2>10. mark_phase => Slots(m)' \subseteq Slots(m) \cup S \cup {NIL}
    BY <2>7, <2>9 DEF Singleton
  <2>11. Effect(m, {}, S)
    BY <1>1, <1>3, <2>6, <2>8, <2>9, <2>10, PlainEffect DEF Index
  <2> QED
    BY <2>11
<1>4. CASE Store(m)
  <2>1. Depth(m)-1 \in 1..Depth(m) /\ Top2(m) \in Slots(m)
    BY <1>1, <1>4 DEF Store, Top2
  <2>2. PICK S : Shading(m, S)
    <3>1. Top2(m) \in Value
      BY <1>1, <2>1, SlotTypes
    <3> QED
      BY <1>4, <3>1, BarrierShades DEF Store
  <2>3. /\ Depth(m)-1 \in 0..Depth(m)
        /\ stack' = [stack EXCEPT ![m] = SubSeq(stack[m], 1, Depth(m)-1)]
    BY <1>4, <2>1 DEF Store, Popped
  <2>4. /\ \A k \in Mutator \ {m} : stack'[k] = stack[k]
        /\ Len(stack'[m]) = Depth(m)-1
        /\ \A i \in 1..Depth(m)-1 : stack'[m][i] = stack[m][i]
    BY <1>1, <2>3, StackCut
  <2>5. \A i \in 1..Depth(m)' : stack'[m][i] \in Slots(m)
    BY <1>1, <2>4 DEF Depth
  <2>6. Slots(m)' \subseteq Slots(m) /\ Slots(m)' \subseteq Near(m)
    BY <1>1, <2>5, SlotsFrom, NearParts
  <2>7. PICK old : holds' = [holds EXCEPT ![Top(m)] = (@ \ old) \cup Singleton(Top2(m))]
    BY <1>4 DEF Store
  <2>8. \A x \in Node : holds'[x] \subseteq holds[x] \cup Slots(m)
    BY <1>1, <2>1, <2>7 DEF Singleton
  <2>9. Effect(m, {}, S)
    BY <1>1, <1>4, <2>2, <2>4, <2>6, <2>8, ColorsShaded DEF Effect, Store, Shading
  <2> QED
    BY <2>9
<1>5. CASE Assign(m)
  <2>1. Depth(m) \in 1..Depth(m) /\ Top(m) \in Slots(m)
    BY <1>1, <1>5 DEF Assign, Top
  <2>2. PICK S : Shading(m, S)
    <3>1. Top(m) \in Value
      BY <1>1, <2>1, SlotTypes
    <3> QED
      BY <1>5, <3>1, BarrierShades DEF Assign
  <2>3. PICK r \in Ref : holds' = [holds EXCEPT ![r] = Singleton(Top(m))]
    BY <1>5 DEF Assign
  <2>4. \A x \in Node : holds'[x] \subseteq holds[x] \cup Slots(m)
    BY <1>1, <2>1, <2>3 DEF Singleton
  <2>5. Slots(m)' = Slots(m)
    BY <1>5 DEF Assign, program, Slots, Depth
  <2>6. Effect(m, {}, S)
    BY <1>1, <1>5, <2>2, <2>4, <2>5, NearParts, ColorsShaded
    DEF Effect, Assign, program, Shading
  <2> QED
    BY <2>6
<1>6. CASE Remove(m)
  <2>1. PICK x : Top(m) \in Obj /\ holds' = [holds EXCEPT ![Top(m)] = @ \ {x}]
    BY <1>6 DEF Remove
  <2>2. \A y \in Node : holds'[y] \subseteq holds[y] \cup Slots(m)
    BY <1>1, <2>1
  <2>3. \A y \in Ref \cup Leaf : holds'[y] = holds[y]
    BY <1>1, <2>1, NodeAssumption DEF Node
  <2>4. Slots(m)' = Slots(m) /\ Depth(m)' = Depth(m) /\ stack' = stack
    BY <1>6 DEF Remove, program, Slots, Depth
  <2>5. Shading(m, {})
    BY <1>6, ShadesNothing DEF Remove
  <2>6. Effect(m, {}, {})
    BY <1>1, <1>6, <2>2, <2>3, <2>4, <2>5, NearParts, ColorsShaded
    DEF Effect, Remove, program, Shading
  <2> QED
    BY <2>6
<1> QED
  BY <1>3, <1>4, <1>5, <1>6

LEMMA CreateEffect ==
  ASSUME Safe, Typed', NEW m \in Mutator, New(m) \/ NewLeaf(m) \/ Ret(m)
  PROVE  \E fresh, S : Effect(m, fresh, S)
<1>1. /\ TypeOK /\ TypeOK' /\ Shape /\ Flat /\ Depth(m) \in Nat
      /\ \A i \in 1..Depth(m) : stack[m][i] \in Slots(m)
      /\ color \in [Node -> {"white", "gray", "black"}]
      /\ holds \in [Node -> SUBSET Node]
      /\ pc \in [Mutator -> {"run", "ret", "makeref", "setref",
                             "copied", "shade", "added", "moved"}]
  BY SlotTypes DEF Safe, Typed, TypeOK, Slots
<1>2. Slots(m) \subseteq Near(m) /\ Unlocked
  BY NearParts DEF New, NewLeaf, Ret
<1>3. CASE New(m)
  <2>1. PICK o \in Obj \ inuse, k \in 0..Depth(m) :
          /\ inuse' = inuse \cup {o}
          /\ holds' = [holds EXCEPT
               ![o] = {stack[m][i] : i \in Depth(m)-k+1..Depth(m)} \ {NIL}]
          /\ color' = [color EXCEPT ![o] = "black"]
          /\ stack' = [stack EXCEPT ![m] = Append(@, o)]
    BY <1>3 DEF New
  <2>2. o \in Node \ inuse /\ o \in Value
    BY DEF Node, Value
  <2>3. /\ \A j \in Mutator \ {m} : stack'[j] = stack[j]
        /\ Len(stack'[m]) = Depth(m) + 1
        /\ stack'[m][Depth(m)+1] = o
        /\ \A i \in 1..Depth(m) : stack'[m][i] = stack[m][i]
    BY <1>1, <2>1, <2>2, StackPush
  <2>4. \A i \in 1..Depth(m)' : stack'[m][i] \in Slots(m) \cup {o}
    BY <1>1, <2>3 DEF Depth
  <2>5. Slots(m)' \subseteq Slots(m) \cup {o} /\ Slots(m)' \subseteq Near(m) \cup {o}
    BY <1>1, <1>2, <2>4, SlotsFrom
  <2>6. \A i \in Depth(m)-k+1..Depth(m) : stack[m][i] \in Slots(m)
    BY <1>1, <2>1
  <2>7. /\ \A x \in Node \ {o} : holds'[x] \subseteq holds[x] \cup Slots(m)
        /\ \A x \in {o} : holds'[x] \subseteq Slots(m)
    BY <1>1, <2>1, <2>2, <2>6
  <2>8. /\ color' = [x \in Node |-> IF x \in {o} THEN "black" ELSE ShadedColor({})[x]]
        /\ mark_stack' = ShadedStack({})
    BY <1>3, <2>1, <2>2, ColorsFresh DEF New
  <2>9. UNCHANGED <<mark_phase, gc, scan, visit>> /\ pc' = [pc EXCEPT ![m] = "ret"]
    BY <1>3 DEF New
  <2>10. pc'[m] # "moved" /\ \A j \in Mutator \ {m} : pc'[j] = pc[j]
    BY <1>1, <2>9
  <2>11. {o} \in SUBSET (Node \ inuse)
    BY <2>2
  <2>12. Effect(m, {o}, {})
    BY <1>2, <2>1, <2>3, <2>5, <2>7, <2>8, <2>9, <2>10, <2>11 DEF Effect
  <2> QED
    BY <2>12
<1>4. CASE NewLeaf(m)
  <2>1. PICK s \in Leaf \ inuse :
          /\ inuse' = inuse \cup {s}
          /\ color' = [color EXCEPT ![s] = "black"]
          /\ stack' = [stack EXCEPT ![m] = Append(@, s)]
    BY <1>4 DEF NewLeaf
  <2>2. s \in Node \ inuse /\ s \in Value
    BY DEF Node, Value
  <2>3. /\ \A j \in Mutator \ {m} : stack'[j] = stack[j]
        /\ Len(stack'[m]) = Depth(m) + 1
        /\ stack'[m][Depth(m)+1] = s
        /\ \A i \in 1..Depth(m) : stack'[m][i] = stack[m][i]
    BY <1>1, <2>1, <2>2, StackPush
  <2>4. \A i \in 1..Depth(m)' : stack'[m][i] \in Slots(m) \cup {s}
    BY <1>1, <2>3 DEF Depth
  <2>5. Slots(m)' \subseteq Slots(m) \cup {s} /\ Slots(m)' \subseteq Near(m) \cup {s}
    BY <1>1, <1>2, <2>4, SlotsFrom
  <2>6. /\ \A x \in Node \ {s} : holds'[x] \subseteq holds[x] \cup Slots(m)
        /\ \A x \in {s} : holds'[x] \subseteq Slots(m)
    BY <1>1, <1>4 DEF NewLeaf, Flat
  <2>7. /\ color' = [x \in Node |-> IF x \in {s} THEN "black" ELSE ShadedColor({})[x]]
        /\ mark_stack' = ShadedStack({})
    BY <1>4, <2>1, <2>2, ColorsFresh DEF NewLeaf
  <2>8. pc[m] = "run"
    BY <1>4 DEF NewLeaf, Uses
  <2>9. Effect(m, {s}, {})
    BY <1>1, <1>2, <1>4, <2>1, <2>2, <2>3, <2>5, <2>6, <2>7, <2>8
    DEF Effect, NewLeaf
  <2> QED
    BY <2>9
<1>5. CASE Ret(m)
  <2>1. base[m] \in 1..Depth(m)
    BY <1>1, <1>5 DEF Shape, Ret
  <2>2. /\ Top(m) \in Slots(m) /\ Top(m) \in Value
        /\ stack' = [stack EXCEPT ![m] = Append(SubSeq(stack[m], 1, base[m]-1), Top(m))]
    BY <1>1, <1>5, <2>1, SlotTypes DEF Top, Ret
  <2>3. PICK b \in 0..Depth(m) : b = base[m]-1
    BY <1>1, <2>1
  <2>4. stack' = [stack EXCEPT ![m] = Append(SubSeq(stack[m], 1, b), Top(m))]
    BY <2>2, <2>3
  <2>5. Slots(m)' \subseteq Slots(m) /\ \A j \in Mutator \ {m} : stack'[j] = stack[j]
    BY <1>1, <2>2, <2>4, SlotsReturn
  <2>6. PICK S : Shading(m, S)
    BY <1>5, <2>2, BarrierShades DEF Ret
  <2>7. Effect(m, {}, S)
    BY <1>1, <1>2, <1>5, <2>5, <2>6, PlainEffect DEF Ret
  <2> QED
    BY <2>7
<1> QED
  BY <1>3, <1>4, <1>5

LEMMA ReferenceEffect ==
  ASSUME Safe, Typed', NEW m \in Mutator, PushRef(m) \/ MakeRef(m) \/ SetRef(m)
  PROVE  \E fresh, S : Effect(m, fresh, S)
<1>1. /\ TypeOK /\ TypeOK' /\ Shape /\ Depth(m) \in Nat
      /\ \A i \in 1..Depth(m) : stack[m][i] \in Slots(m)
      /\ color \in [Node -> {"white", "gray", "black"}]
      /\ holds \in [Node -> SUBSET Node]
      /\ pc \in [Mutator -> {"run", "ret", "makeref", "setref",
                             "copied", "shade", "added", "moved"}]
  BY SlotTypes DEF Safe, Typed, TypeOK, Slots
<1>2. Slots(m) \subseteq Near(m) /\ Unlocked
  BY NearParts DEF PushRef, MakeRef, SetRef
<1>3. CASE PushRef(m)
  <2>1. PICK i \in 1..Depth(m) :
          /\ stack' = [stack EXCEPT ![m] = Append(@, stack[m][i])]
          /\ IF stack[m][i] \in Ref
             THEN UNCHANGED <<pc, base>>
             ELSE pc' = [pc EXCEPT ![m] = "makeref"]
    BY <1>3 DEF PushRef
  <2>2. stack[m][i] \in Value /\ stack[m][i] \in Slots(m)
    BY <1>1, SlotTypes
  <2>3. /\ \A k \in Mutator \ {m} : stack'[k] = stack[k]
        /\ Len(stack'[m]) = Depth(m) + 1
        /\ stack'[m][Depth(m)+1] = stack[m][i]
        /\ \A j \in 1..Depth(m) : stack'[m][j] = stack[m][j]
    BY <1>1, <2>1, <2>2, StackPush
  <2>4. \A j \in 1..Depth(m)' : stack'[m][j] \in Slots(m)
    BY <1>1, <2>2, <2>3 DEF Depth
  <2>5. Slots(m)' \subseteq Slots(m)
    BY <1>1, <2>4, SlotsFrom
  <2>6. pc[m] = "run"
    BY <1>3 DEF PushRef, Uses
  <2>7. pc'[m] # "moved" /\ \A k \in Mutator \ {m} : pc'[k] = pc[k]
    BY <1>1, <2>1, <2>6
  <2>8. Shading(m, {})
    BY <1>3, ShadesNothing DEF PushRef
  <2>9. Effect(m, {}, {})
    BY <1>2, <1>3, <2>3, <2>5, <2>7, <2>8, PlainEffect DEF PushRef
  <2> QED
    BY <2>9
<1>4. CASE MakeRef(m)
  <2>1. base[m] \in 1..Depth(m)
    BY <1>1, <1>4 DEF Shape, MakeRef
  <2>2. PICK d \in 1..Depth(m) : d = Depth(m)
    BY <1>1, <2>1
  <2>3. PICK r \in Ref \ inuse :
          /\ inuse' = inuse \cup {r}
          /\ holds' = [holds EXCEPT ![r] = Singleton(Top(m))]
          /\ color' = [color EXCEPT ![r] = "black"]
          /\ stack' = [stack EXCEPT ![m][d] = r]
    BY <1>4, <2>2 DEF MakeRef
  <2>4. r \in Node \ inuse /\ r \in Value
    BY DEF Node, Value
  <2>5. \A k \in Mutator \ {m} : stack'[k] = stack[k]
    BY <1>1, <2>3, <2>4, StackPut
  <2>6. Slots(m)' \subseteq Slots(m) \cup {r}
    BY <1>1, <2>3, <2>4, SlotsPut
  <2>7. Top(m) \in Slots(m)
    BY <1>1, <2>2 DEF Top
  <2>8. /\ \A x \in Node \ {r} : holds'[x] \subseteq holds[x] \cup Slots(m)
        /\ \A x \in {r} : holds'[x] \subseteq Slots(m)
    BY <1>1, <2>3, <2>4, <2>7 DEF Singleton
  <2>9. /\ color' = [x \in Node |-> IF x \in {r} THEN "black" ELSE ShadedColor({})[x]]
        /\ mark_stack' = ShadedStack({})
    BY <1>4, <2>3, <2>4, ColorsFresh DEF MakeRef
  <2>10. Effect(m, {r}, {})
    BY <1>1, <1>2, <1>4, <2>3, <2>4, <2>5, <2>6, <2>8, <2>9 DEF Effect, MakeRef
  <2> QED
    BY <2>10
<1>5. CASE SetRef(m)
  <2>1. PICK b \in 1..Depth(m) : b = base[m]
    BY <1>1, <1>5 DEF Shape, SetRef
  <2>2. Top(m) \in Slots(m) /\ Top(m) \in Value
    BY <1>1, <2>1, SlotTypes DEF Top
  <2>3. PICK v \in Value : v = Top(m)
    BY <2>2
  <2>4. stack' = [stack EXCEPT ![m][b] = v]
    BY <1>5, <2>1, <2>3 DEF SetRef
  <2>5. \A k \in Mutator \ {m} : stack'[k] = stack[k]
    BY <1>1, <2>4, StackPut
  <2>6. Slots(m)' \subseteq Slots(m) \cup {v}
    BY <1>1, <2>4, SlotsPut
  <2>7. PICK S : Shading(m, S)
    BY <1>5, <2>2, BarrierShades DEF SetRef
  <2>8. Slots(m)' \subseteq Slots(m)
    BY <2>2, <2>3, <2>6
  <2>9. Effect(m, {}, S)
    BY <1>1, <1>2, <1>5, <2>5, <2>7, <2>8, PlainEffect DEF SetRef
  <2> QED
    BY <2>9
<1> QED
  BY <1>3, <1>4, <1>5

LEMMA AaddEffect ==
  ASSUME Safe, Typed', NEW m \in Mutator,
         Aadd(m) \/ AaddTest(m) \/ AaddShade(m) \/ AaddRet(m)
  PROVE  \E S : Effect(m, {}, S)
<1>1. /\ TypeOK /\ TypeOK' /\ Shape /\ Depth(m) \in Nat
      /\ \A i \in 1..Depth(m) : stack[m][i] \in Slots(m)
      /\ color \in [Node -> {"white", "gray", "black"}]
      /\ holds \in [Node -> SUBSET Node]
      /\ pc \in [Mutator -> {"run", "ret", "makeref", "setref",
                             "copied", "shade", "added", "moved"}]
  BY SlotTypes DEF Safe, Typed, TypeOK, Slots
<1>2. Slots(m) \subseteq Near(m)
  BY NearParts
<1>3. Depth(m) > 1 /\ Top2(m) \in Obj /\ Top(m) \notin Ref
  BY <1>1 DEF Aadd, AaddTest, AaddShade, AaddRet, Shape
<1>4. Top(m) \in Slots(m) /\ Top(m) \in Value
  BY <1>1, <1>3, SlotTypes DEF Top
<1>5. CASE Aadd(m)
  <2>1. holds' = [holds EXCEPT ![Top2(m)] = @ \cup Singleton(Top(m))]
    BY <1>5 DEF Aadd
  <2>2. \A x \in Node : holds'[x] \subseteq holds[x] \cup Slots(m)
    BY <1>1, <1>4, <2>1 DEF Singleton
  <2>3. \A x \in Ref \cup Leaf : holds'[x] = holds[x]
    BY <1>1, <1>3, <2>1, NodeAssumption DEF Node
  <2>4. Slots(m)' = Slots(m) /\ Depth(m)' = Depth(m) /\ stack' = stack
    BY <1>5 DEF Aadd, Slots, Depth
  <2>5. pc'[m] = "copied" /\ \A k \in Mutator \ {m} : pc'[k] = pc[k]
    BY <1>1, <1>5 DEF Aadd
  <2>6. UNCHANGED <<inuse, marks, mark_phase, gc, scan, visit>>
    BY <1>5 DEF Aadd
  <2>7. Shading(m, {}) /\ inuse' = inuse \cup {}
    BY <2>6, ShadesNothing
  <2>8. Depth(m)' <= Depth(m) /\ \A i \in 1..Depth(m)' : stack'[m][i] = stack[m][i]
    BY <1>1, <2>4
  <2>9. \A k \in Mutator \ {m} : stack'[k] = stack[k] /\ pc'[k] = pc[k]
    BY <2>4, <2>5
  <2>10. Slots(m)' \subseteq Near(m) \cup {} \cup {NIL}
    BY <1>2, <2>4
  <2>11. pc'[m] # "moved"
    BY <2>5
  <2>12. Effect(m, {}, {})
    BY <2>2, <2>3, <2>4, <2>6, <2>7, <2>8, <2>9, <2>10, <2>11, ColorsShaded
    DEF Effect, Shading
  <2> QED
    BY <2>12
<1>6. CASE AaddTest(m)
  <2>1. Slots(m)' = Slots(m) /\ Depth(m)' = Depth(m) /\ stack' = stack
    BY <1>6 DEF AaddTest, Slots, Depth
  <2>2. pc'[m] # "moved" /\ \A k \in Mutator \ {m} : pc'[k] = pc[k]
    BY <1>1, <1>6 DEF AaddTest
  <2>3. UNCHANGED <<heap, mark_phase, gc, scan, visit>> /\ Shading(m, {})
    BY <1>6, ShadesNothing DEF AaddTest
  <2>4. Slots(m)' \subseteq Near(m) \cup {NIL} /\ Depth(m)' <= Depth(m)
    BY <1>1, <1>2, <2>1
  <2>5. Effect(m, {}, {})
    BY <2>1, <2>2, <2>3, <2>4, PlainEffect
  <2> QED
    BY <2>5
<1>7. CASE AaddShade(m)
  <2>1. Slots(m)' = Slots(m) /\ Depth(m)' = Depth(m) /\ stack' = stack
    BY <1>7 DEF AaddShade, Slots, Depth
  <2>2. pc'[m] # "moved" /\ \A k \in Mutator \ {m} : pc'[k] = pc[k]
    BY <1>1, <1>7 DEF AaddShade
  <2>3. UNCHANGED <<heap, mark_phase, gc, scan, visit>>
    BY <1>7 DEF AaddShade
  <2>4. PICK S : S = Singleton(Top(m))
    OBVIOUS
  <2>5. S \in SUBSET Node /\ S \subseteq Slots(m) \ Ref
    BY <1>3, <1>4, <2>4, SingletonType DEF Singleton
  <2>6. Shading(m, S)
    BY <1>7, <2>4, <2>5 DEF AaddShade, Shade, Shading
  <2>7. Slots(m)' \subseteq Near(m) \cup {NIL} /\ Depth(m)' <= Depth(m)
    BY <1>1, <1>2, <2>1
  <2>8. Effect(m, {}, S)
    BY <2>1, <2>2, <2>3, <2>6, <2>7, PlainEffect
  <2> QED
    BY <2>8
<1>8. CASE AaddRet(m)
  <2>1. PICK b \in 0..Depth(m) : b = Depth(m)-2
    BY <1>1, <1>3
  <2>2. stack' = [stack EXCEPT ![m] = Append(SubSeq(stack[m], 1, b), Top(m))]
    BY <1>8, <2>1 DEF AaddRet, Popped
  <2>3. Slots(m)' \subseteq Slots(m) /\ \A k \in Mutator \ {m} : stack'[k] = stack[k]
    BY <1>1, <1>4, <2>2, SlotsReturn
  <2>4. PICK S : Shading(m, S)
    BY <1>4, <1>8, BarrierShades DEF AaddRet
  <2>5. Effect(m, {}, S)
    BY <1>1, <1>2, <1>8, <2>3, <2>4, PlainEffect DEF AaddRet
  <2> QED
    BY <2>5
<1> QED
  BY <1>5, <1>6, <1>7, <1>8

LEMMA OperationSafe ==
  ASSUME LoadsShaded, Safe, NEW m \in Mutator, Operation(m)
  PROVE  Safe'
<1>1. Typed'
  BY NextTyped DEF Safe, Next
<1>2. ~Blkenv(m) /\ ~BlkenvPop(m)
  BY DEF LoadsShaded, Safe, Phases, Blkenv, BlkenvPop, Uses
<1>3. PICK fresh, S : Effect(m, fresh, S)
  BY <1>1, <1>2, StackEffect, ElementEffect, CreateEffect, ReferenceEffect,
     AaddEffect DEF Operation
<1> QED
  BY <1>1, <1>3, EffectSafe

-----------------------------------------------------------------------------
(* The collector.                                                           *)

LEMMA ScanSafe ==
  ASSUME Safe, Typed', Start \/ ScanThread \/ ScanSlot \/ ScanEnd
  PROVE  Safe'
<1>1. /\ Typed /\ Phases /\ StacksInUse /\ HeapInUse
      /\ IdleBlack /\ GrayStacked /\ NoneVisited /\ BlackClosed /\ Scanned /\ StacksMarked
      /\ color \in [Node -> {"white", "gray", "black"}]
      /\ td \in Mutator \cup {NIL} /\ sp \in Nat /\ toscan \subseteq Mutator
  BY DEF Safe, Typed, TypeOK
<1>2. UNCHANGED <<heap, program, visit>>
  BY DEF Start, ScanThread, ScanSlot, ScanEnd
<1>3. /\ inuse' = inuse /\ holds' = holds /\ stack' = stack
      /\ cur' = cur /\ todo' = todo
      /\ \A m \in Mutator : Slots(m)' = Slots(m) /\ Depth(m)' = Depth(m)
  BY <1>2 DEF heap, program, visit, Slots, Depth
<1>4. StacksInUse' /\ HeapInUse'
  BY <1>1, <1>3 DEF StacksInUse, HeapInUse, Closed
<1>5. Phases' /\ IdleBlack'
  <2>1. gc' = "scan" \/ (gc' = IF Marksync THEN "sync" ELSE "final")
    BY DEF Start, ScanThread, ScanSlot, ScanEnd
  <2>2. gc' # "idle"
    BY <2>1
  <2>3. Phases'
    BY <1>1, <1>2, SyncAssumption
    DEF Phases, Start, ScanThread, ScanSlot, ScanEnd, program, visit
  <2> QED
    BY <2>2, <2>3 DEF IdleBlack
<1>6. CASE Start
  <2>1. \A x \in Node : color'[x] = "white"
    BY <1>1, <1>6 DEF Start, GrayStacked
  <2>2. gc' = "scan" /\ toscan' = Mutator
    BY <1>6 DEF Start
  <2>3. GrayStacked' /\ NoneVisited' /\ BlackClosed'
    BY <2>1, <2>2 DEF GrayStacked, NoneVisited, BlackClosed, Node
  <2>4. Scanned' /\ StacksMarked'
    BY <2>2 DEF Scanned, StacksMarked
  <2> QED
    BY <1>4, <1>5, <2>3, <2>4 DEF Safe
<1>7. CASE ScanThread
  <2>1. gc = "scan" /\ gc' = gc /\ marks' = marks /\ td = NIL
    BY <1>7 DEF ScanThread
  <2>2. GrayStacked' /\ NoneVisited' /\ BlackClosed' /\ StacksMarked'
    BY <1>1, <1>3, <2>1
    DEF marks, GrayStacked, NoneVisited, BlackClosed, StacksMarked
  <2>3. PICK m \in toscan : td' = m /\ toscan' = toscan \ {m} /\ sp' = 1
    BY <1>7 DEF ScanThread
  <2>4. ASSUME NEW k \in Mutator \ toscan', NEW i \in 1..Depth(k), k = m => i < 1,
               stack[k][i] # NIL
        PROVE  color[stack[k][i]] # "white"
    <3>1. k # m
      BY <2>4
    <3>2. k \in Mutator \ toscan /\ k # td
      BY <2>1, <2>3, <3>1, NodeAssumption
    <3> QED
      BY <1>1, <2>1, <2>4, <3>2 DEF Scanned
  <2>5. Scanned'
    BY <1>3, <2>1, <2>3, <2>4 DEF Scanned, marks
  <2> QED
    BY <1>4, <1>5, <2>2, <2>5 DEF Safe
<1>8. CASE ScanSlot /\ sp <= Len(stack[td])
  <2>1. /\ gc = "scan" /\ gc' = gc /\ toscan' = toscan
        /\ td \in Mutator /\ td' = td /\ sp' = sp+1
    BY <1>1, <1>8 DEF ScanSlot
  <2>2. PICK v : v = stack[td][sp]
    OBVIOUS
  <2>3. color' = ShadedColor(Singleton(v)) /\ mark_stack' = ShadedStack(Singleton(v))
    BY <1>8, <2>2 DEF ScanSlot, Shade
  <2>4. sp = 0 \/ sp \in 1..Depth(td)
    BY <1>1, <1>8, <2>1, SlotTypes DEF Depth, Typed
  <2>5. /\ \A x \in Node : color[x] # "white" => color'[x] # "white"
        /\ \A x \in Node : color'[x] = "gray" => x \in mark_stack' \/ color[x] = "gray"
        /\ mark_stack \subseteq mark_stack'
        /\ \A x \in Obj : color'[x] = "black" => color[x] = "black"
        /\ \A x \in Node : color'[x] = "black" =>
             color[x] = "black" \/ \A y \in holds[x] : color'[y] # "white"
        /\ v \in Node => color'[v] # "white"
    <3> DEFINE S == Singleton(v) \cap Node
    <3>1. S \in SUBSET Node /\ (v \in Node => v \in S)
      BY NodeAssumption DEF Singleton
    <3>2. Deref(Singleton(v)) \cap Node = Deref(S) \cap Node
      BY DEF Deref, Node
    <3>3. color' = ShadedColor(S) /\ mark_stack' = ShadedStack(S)
      BY <2>3, <3>2 DEF ShadedColor, ShadedStack, Node
    <3> HIDE DEF S
    <3> QED
      BY <1>1, <3>1, <3>3, ShadeSafe
  <2>6. GrayStacked'
    BY <1>1, <2>1, <2>5 DEF GrayStacked
  <2>7. NoneVisited'
    BY <1>1, <2>1, <2>5 DEF NoneVisited
  <2>8. holds \in [Node -> SUBSET Node]
    BY <1>1 DEF Typed, TypeOK
  <2>9. BlackClosed'
    BY <1>1, <1>3, <2>1, <2>5, <2>8 DEF BlackClosed
  <2>10. ASSUME NEW k \in Mutator \ toscan, NEW i \in 1..Depth(k), k = td => i < sp+1,
                stack[k][i] # NIL
         PROVE  color'[stack[k][i]] # "white"
    <3>1. stack[k][i] \in Node
      BY <1>1, <2>10, SlotTypes DEF Typed, Value
    <3>2. CASE k = td /\ i = sp
      BY <2>2, <2>5, <3>1, <3>2
    <3>3. CASE ~(k = td /\ i = sp)
      <4>1. k = td => i < sp
        BY <1>1, <2>10, <3>3
      <4>2. color[stack[k][i]] # "white"
        BY <1>1, <2>1, <2>10, <4>1 DEF Scanned
      <4> QED
        BY <2>5, <3>1, <4>2
    <3> QED
      BY <3>2, <3>3
  <2>11. Scanned'
    BY <1>3, <2>1, <2>10 DEF Scanned
  <2>12. StacksMarked'
    BY <2>1 DEF StacksMarked
  <2> QED
    BY <1>4, <1>5, <2>6, <2>7, <2>9, <2>11, <2>12 DEF Safe
<1>9. CASE ScanSlot /\ ~(sp <= Len(stack[td]))
  <2>1. /\ gc = "scan" /\ gc' = gc /\ marks' = marks /\ toscan' = toscan
        /\ td \in Mutator /\ td' = NIL
    BY <1>1, <1>9 DEF ScanSlot
  <2>2. GrayStacked' /\ NoneVisited' /\ BlackClosed' /\ StacksMarked'
    BY <1>1, <1>3, <2>1
    DEF marks, GrayStacked, NoneVisited, BlackClosed, StacksMarked
  <2>3. \A i \in 1..Depth(td) : i < sp
    BY <1>1, <1>9, <2>1, SlotTypes DEF Depth, Typed
  <2>4. ASSUME NEW k \in Mutator \ toscan, NEW i \in 1..Depth(k), stack[k][i] # NIL
        PROVE  color[stack[k][i]] # "white"
    BY <1>1, <2>1, <2>3, <2>4 DEF Scanned
  <2>5. Scanned'
    BY <1>3, <2>1, <2>4 DEF Scanned, marks
  <2> QED
    BY <1>4, <1>5, <2>2, <2>5 DEF Safe
<1>10. CASE ScanEnd
  <2>1. /\ gc = "scan" /\ gc' \in {"sync", "final"}
        /\ marks' = marks /\ td = NIL /\ toscan = {}
    BY <1>10 DEF ScanEnd
  <2>2. GrayStacked' /\ NoneVisited' /\ BlackClosed' /\ Scanned'
    BY <1>1, <1>3, <2>1
    DEF marks, GrayStacked, NoneVisited, BlackClosed, Scanned
  <2>3. StacksMarked'
    <3> SUFFICES ASSUME NEW m \in Mutator, NEW v \in Slots(m), v # NIL
                 PROVE  color[v] # "white"
      BY <1>3, <2>1 DEF StacksMarked, marks
    <3>1. PICK i \in 1..Depth(m) : v = stack[m][i]
      BY DEF Slots
    <3>2. m # td
      BY <2>1, NodeAssumption
    <3> QED
      BY <1>1, <2>1, <3>1, <3>2 DEF Scanned
  <2> QED
    BY <1>4, <1>5, <2>2, <2>3 DEF Safe
<1> QED
  BY <1>6, <1>7, <1>8, <1>9, <1>10

(* mark_lk: the object it visits is black, and what it holds white is still *)
(* to be shaded.                                                            *)
LEMMA SyncSafe ==
  ASSUME Safe, Typed', SyncPop \/ SyncShade \/ SyncUnlock \/ SyncEmpty \/ Relock
  PROVE  Safe'
<1>1. /\ Typed /\ Phases /\ StacksInUse /\ HeapInUse
      /\ IdleBlack /\ GrayStacked /\ NoneVisited /\ BlackClosed
      /\ Scanned /\ StacksMarked
      /\ color \in [Node -> {"white", "gray", "black"}]
      /\ holds \in [Node -> SUBSET Node] /\ cur \in Obj \cup {NIL}
      /\ mark_stack \subseteq Obj /\ Obj \subseteq Node /\ NIL \notin Node
  BY NodeAssumption DEF Safe, Typed, TypeOK, Node
<1>2. UNCHANGED <<heap, program>>
  BY DEF SyncPop, SyncShade, SyncUnlock, SyncEmpty, Relock
<1>3. /\ inuse' = inuse /\ holds' = holds /\ stack' = stack /\ pc' = pc
      /\ \A m \in Mutator : Slots(m)' = Slots(m) /\ Depth(m)' = Depth(m)
  BY <1>2 DEF heap, program, Slots, Depth
<1>4. StacksInUse' /\ HeapInUse'
  BY <1>1, <1>3 DEF StacksInUse, HeapInUse, Closed
<1>5. /\ gc \in {"sync", "relock"} /\ gc' \in {"sync", "relock", "final"}
      /\ gc = "relock" => gc' = "final"
  BY DEF SyncPop, SyncShade, SyncUnlock, SyncEmpty, Relock
<1>6. IdleBlack' /\ NoneVisited' /\ Scanned'
  BY <1>5 DEF IdleBlack, NoneVisited, Scanned
<1>7. ASSUME \A x \in Node : color[x] # "white" => color'[x] # "white"
      PROVE  StacksMarked'
  <2> SUFFICES ASSUME NEW m \in Mutator, NEW v \in Slots(m), v # NIL
               PROVE  color'[v] # "white"
    BY <1>3 DEF StacksMarked
  <2>1. v \in Node
    BY SlotTypes DEF Safe, Typed, Slots, Value
  <2>2. color[v] # "white"
    BY <1>1, <1>5 DEF StacksMarked
  <2> QED
    BY <1>7, <2>1, <2>2
<1>8. CASE SyncPop
  <2>1. PICK o \in mark_stack :
          /\ mark_stack' = mark_stack \ {o}
          /\ color' = [color EXCEPT ![o] = "black"]
          /\ cur' = o /\ todo' = holds[o]
    BY <1>8 DEF SyncPop
  <2>2. gc = "sync" /\ gc' = "sync" /\ cur = NIL /\ mark_phase' = mark_phase
    BY <1>8 DEF SyncPop
  <2>3. o \in Node
    BY <1>1
  <2>4. Phases'
    BY <1>1, <1>3, <2>1, <2>2, <2>3 DEF Phases
  <2>5. GrayStacked'
    BY <1>1, <2>1, <2>2 DEF GrayStacked
  <2>6. BlackClosed'
    <3> SUFFICES ASSUME NEW x \in Node, color'[x] = "black", NEW y \in holds[x],
                        x # o
                 PROVE  color'[y] # "white"
      BY <1>3, <2>1 DEF BlackClosed
    <3>1. y \in Node /\ color[x] = "black"
      BY <1>1, <2>1
    <3>2. color[y] # "white"
      BY <1>1, <2>2, <3>1 DEF BlackClosed
    <3> QED
      BY <1>1, <2>1, <3>1, <3>2
  <2>7. StacksMarked'
    BY <1>1, <1>7, <2>1
  <2> QED
    BY <1>4, <1>6, <2>4, <2>5, <2>6, <2>7 DEF Safe
<1>9. CASE SyncShade
  <2>1. PICK z \in todo :
          /\ todo' = todo \ {z}
          /\ IF z \in holds[cur] THEN Shade({z}) ELSE UNCHANGED marks
    BY <1>9 DEF SyncShade
  <2>2. gc = "sync" /\ gc' = "sync" /\ cur # NIL /\ cur' = cur
        /\ mark_phase' = mark_phase
    BY <1>9 DEF SyncShade
  <2>3. Phases'
    BY <1>1, <1>3, <2>2 DEF Phases
  <2>4. cur \in Node
    BY <1>1, <2>2
  <2>5. /\ \A x \in Node : color[x] # "white" => color'[x] # "white"
        /\ \A x \in Node : color'[x] = "gray" => x \in mark_stack' \/ color[x] = "gray"
        /\ mark_stack \subseteq mark_stack'
        /\ \A x \in Node : color'[x] = "black" =>
             color[x] = "black" \/ \A y \in holds[x] : color'[y] # "white"
        /\ z \in holds[cur] => color'[z] # "white"
    <3>1. CASE z \in holds[cur]
      <4>1. {z} \in SUBSET Node
        BY <1>1, <2>4, <3>1
      <4>2. PICK S \in SUBSET Node : S = {z}
        BY <4>1
      <4>3. color' = ShadedColor(S) /\ mark_stack' = ShadedStack(S) /\ z \in S
        BY <2>1, <3>1, <4>2 DEF Shade
      <4> QED
        BY <1>1, <4>3, ShadeSafe
    <3>2. CASE z \notin holds[cur]
      BY <2>1, <3>2 DEF marks
    <3> QED
      BY <3>1, <3>2
  <2>6. GrayStacked'
    BY <1>1, <2>2, <2>5 DEF GrayStacked
  <2>7. BlackClosed'
    <3> SUFFICES ASSUME NEW x \in Node, color'[x] = "black", NEW y \in holds[x],
                        ~(x = cur /\ y \in todo \ {z})
                 PROVE  color'[y] # "white"
      BY <1>3, <2>1, <2>2 DEF BlackClosed
    <3>1. y \in Node
      BY <1>1
    <3>2. CASE x = cur /\ y = z
      BY <2>5, <3>2
    <3>3. CASE ~(x = cur /\ y \in todo) /\ color[x] = "black"
      <4>1. color[y] # "white"
        BY <1>1, <2>2, <3>3 DEF BlackClosed
      <4> QED
        BY <2>5, <3>1, <4>1
    <3>4. CASE color[x] # "black"
      BY <2>5, <3>4
    <3> QED
      BY <3>2, <3>3, <3>4
  <2>8. StacksMarked'
    BY <1>7, <2>5
  <2> QED
    BY <1>4, <1>6, <2>3, <2>6, <2>7, <2>8 DEF Safe
<1>10. CASE SyncUnlock
  <2>1. /\ gc = "sync" /\ gc' = "sync" /\ cur' = NIL /\ todo = {} /\ todo' = {}
        /\ mark_phase' = mark_phase /\ color' = color /\ mark_stack' = mark_stack
    BY <1>10 DEF SyncUnlock, marks
  <2>2. Phases' /\ GrayStacked' /\ BlackClosed'
    BY <1>1, <1>3, <2>1 DEF Phases, GrayStacked, BlackClosed
  <2> QED
    BY <1>4, <1>6, <1>7, <2>1, <2>2 DEF Safe
<1>11. CASE SyncEmpty
  <2>1. /\ gc = "sync" /\ gc' = "relock" /\ cur = NIL
        /\ cur' = cur /\ todo' = todo /\ mark_phase' = mark_phase
        /\ color' = color /\ mark_stack' = mark_stack
    BY <1>11 DEF SyncEmpty, marks, visit
  <2>2. Phases' /\ GrayStacked' /\ BlackClosed'
    BY <1>1, <1>3, <2>1 DEF Phases, GrayStacked, BlackClosed
  <2> QED
    BY <1>4, <1>6, <1>7, <2>1, <2>2 DEF Safe
<1>12. CASE Relock
  <2>1. /\ gc = "relock" /\ gc' = "final" /\ mark_phase' = FALSE
        /\ cur' = cur /\ todo' = todo
        /\ color' = color /\ mark_stack' = mark_stack
    BY <1>12 DEF Relock, marks, visit
  <2>2. Phases' /\ GrayStacked' /\ BlackClosed'
    BY <1>1, <1>3, <2>1 DEF Phases, GrayStacked, BlackClosed
  <2> QED
    BY <1>4, <1>6, <1>7, <2>1, <2>2 DEF Safe
<1> QED
  BY <1>8, <1>9, <1>10, <1>11, <1>12

LEMMA FinalSafe ==
  ASSUME Safe, Typed', FinalMark \/ FinalEnd \/ Sweep
  PROVE  Safe'
<1>1. /\ Typed /\ Phases /\ StacksInUse /\ HeapInUse
      /\ IdleBlack /\ GrayStacked /\ NoneVisited /\ BlackClosed /\ Scanned /\ StacksMarked
      /\ color \in [Node -> {"white", "gray", "black"}]
      /\ holds \in [Node -> SUBSET Node] /\ inuse \subseteq Node
      /\ mark_stack \subseteq Obj /\ Obj \subseteq Node
  BY DEF Safe, Typed, TypeOK, Node
<1>2. UNCHANGED <<mark_phase, program, visit>>
  BY DEF FinalMark, FinalEnd, Sweep
<1>3. /\ stack' = stack /\ cur' = cur /\ todo' = todo
      /\ \A m \in Mutator : Slots(m)' = Slots(m) /\ Depth(m)' = Depth(m)
  BY <1>2 DEF program, visit, Slots, Depth
<1>4. gc \in {"final", "sweep"} /\ gc' \in {"idle", "final", "sweep"}
  BY DEF FinalMark, FinalEnd, Sweep
<1>5. Phases' /\ NoneVisited' /\ Scanned'
  BY <1>1, <1>2, <1>4 DEF Phases, NoneVisited, Scanned, program, visit
<1>6. cur = NIL
  BY <1>1, <1>4 DEF Phases
<1>7. CASE FinalMark
  <2>1. PICK o \in mark_stack :
          /\ color' = [ShadedColor(holds[o]) EXCEPT ![o] = "black"]
          /\ mark_stack' = ShadedStack(holds[o]) \ {o}
    BY <1>7 DEF FinalMark
  <2>2. gc = "final" /\ gc' = "final" /\ inuse' = inuse /\ holds' = holds
    BY <1>7 DEF FinalMark, heap
  <2>3. o \in Node /\ holds[o] \in SUBSET Node
    BY <1>1
  <2> DEFINE c == ShadedColor(holds[o])
  <2>4. c \in [Node -> {"white", "gray", "black"}]
    BY <1>1, <2>3, ShadeTypes DEF Typed
  <2>5. /\ \A x \in Node : color[x] # "white" => c[x] # "white"
        /\ \A x \in holds[o] : c[x] # "white"
        /\ \A x \in Node : c[x] = "gray" =>
             x \in ShadedStack(holds[o]) \/ color[x] = "gray"
        /\ mark_stack \subseteq ShadedStack(holds[o])
        /\ \A x \in Node : c[x] = "black" =>
             color[x] = "black" \/ \A y \in holds[x] : c[y] # "white"
    BY <1>1, <2>3, ShadeSafe
  <2> HIDE DEF c
  <2>6. \A x \in Node : color'[x] = IF x = o THEN "black" ELSE c[x]
    BY <2>1, <2>4 DEF c
  <2>7. StacksInUse' /\ HeapInUse'
    BY <1>1, <1>3, <2>2 DEF StacksInUse, HeapInUse, Closed
  <2>8. GrayStacked'
    BY <1>1, <2>1, <2>2, <2>5, <2>6 DEF GrayStacked
  <2>9. BlackClosed'
    <3> SUFFICES ASSUME NEW x \in Node, color'[x] = "black", NEW y \in holds[x]
                 PROVE  color'[y] # "white"
      BY <2>2 DEF BlackClosed
    <3>1. y \in Node
      BY <1>1
    <3>2. x = o => c[y] # "white"
      BY <2>5
    <3>3. x # o /\ color[x] = "black" => color[y] # "white"
      BY <1>1, <1>6, <2>2, NodeAssumption DEF BlackClosed, Node
    <3>4. c[y] # "white"
      BY <2>5, <2>6, <3>1, <3>2, <3>3
    <3> QED
      BY <2>6, <3>1, <3>4
  <2>10. StacksMarked'
    <3> SUFFICES ASSUME NEW m \in Mutator, NEW v \in Slots(m), v # NIL
                 PROVE  color'[v] # "white"
      BY <1>3, <2>2 DEF StacksMarked
    <3>1. v \in Node /\ color[v] # "white"
      BY <1>1, <2>2 DEF StacksInUse, StacksMarked
    <3> QED
      BY <2>5, <2>6, <3>1
  <2>11. IdleBlack'
    BY <2>2 DEF IdleBlack
  <2> QED
    BY <1>5, <2>7, <2>8, <2>9, <2>10, <2>11 DEF Safe
<1>8. CASE FinalEnd
  <2>1. /\ gc = "final" /\ gc' = "sweep" /\ mark_stack = {}
        /\ color' = color /\ inuse' = inuse /\ holds' = holds
    BY <1>8 DEF FinalEnd, heap, marks
  <2>2. StacksInUse' /\ HeapInUse'
    BY <1>1, <1>3, <2>1 DEF StacksInUse, HeapInUse, Closed
  <2>3. GrayStacked' /\ BlackClosed' /\ StacksMarked' /\ IdleBlack'
    BY <1>1, <1>3, <2>1 DEF GrayStacked, BlackClosed, StacksMarked, IdleBlack
  <2> QED
    BY <1>5, <2>2, <2>3 DEF Safe
<1>9. CASE Sweep
  <2>1. /\ gc = "sweep" /\ gc' = "idle" /\ color' = color
        /\ inuse' = {x \in inuse : color[x] # "white"}
        /\ holds' = [x \in Node |-> IF x \in inuse' THEN holds[x] ELSE {}]
    BY <1>9 DEF Sweep, marks
  <2>2. \A x \in Node : color[x] # "gray"
    BY <1>1, <2>1 DEF GrayStacked
  <2>3. StacksInUse'
    BY <1>1, <1>3, <2>1 DEF StacksInUse, StacksMarked
  <2>4. HeapInUse'
    <3> SUFFICES ASSUME NEW x \in inuse', NEW y \in holds'[x] PROVE y \in inuse'
      BY DEF HeapInUse, Closed
    <3>1. x \in inuse /\ color[x] = "black" /\ y \in holds[x]
      BY <1>1, <2>1, <2>2
    <3>2. y \in inuse /\ color[y] # "white"
      BY <1>1, <1>6, <2>1, <3>1, NodeAssumption DEF HeapInUse, Closed, BlackClosed, Node
    <3> QED
      BY <2>1, <3>2
  <2>5. GrayStacked' /\ BlackClosed' /\ StacksMarked'
    BY <2>1, <2>2 DEF GrayStacked, BlackClosed, StacksMarked
  <2>6. IdleBlack'
    BY <1>1, <2>1, <2>2 DEF IdleBlack
  <2> QED
    BY <1>5, <2>3, <2>4, <2>5, <2>6 DEF Safe
<1> QED
  BY <1>7, <1>8, <1>9

LEMMA NextSafe ==
  ASSUME LoadsShaded, Safe, [Next]_vars
  PROVE  Safe'
<1>1. Typed'
  BY NextTyped DEF Safe
<1>2. CASE Collector
  BY <1>1, <1>2, ScanSafe, SyncSafe, FinalSafe DEF Collector
<1>3. ASSUME NEW m \in Mutator, Operation(m) PROVE Safe'
  BY <1>3, OperationSafe
<1>4. CASE UNCHANGED vars
  <2>1. \A m \in Mutator : Slots(m)' = Slots(m) /\ Depth(m)' = Depth(m)
    BY <1>4 DEF vars, program, Slots, Depth
  <2> QED
    BY <1>1, <1>4, <2>1
    DEF vars, heap, marks, program, scan, visit, Safe, Phases, StacksInUse,
        HeapInUse, Closed, IdleBlack, GrayStacked, NoneVisited, BlackClosed,
        Scanned, StacksMarked
<1> QED
  BY <1>2, <1>3, <1>4 DEF Next

(* The invariant holds in every mode the program keeps to the loads the     *)
(* barrier covers.                                                          *)
THEOREM SafeAlways ==
  ASSUME LoadsShaded
  PROVE  Spec => []Safe
<1>1. Safe /\ [Next]_vars => Safe'
  BY NextSafe
<1> QED
  BY <1>1, InitSafe, PTL DEF Spec

-----------------------------------------------------------------------------
(* Whatever the threads do beside the scan, beside mark_lk and beside the   *)
(* end of the marking, nothing a stack reaches is freed by the sweep.       *)
THEOREM LiveIsKept ==
  ASSUME LoadsShaded
  PROVE  Spec => []LiveKept
<1>1. Safe => LiveKept
  BY SafeLive
<1> QED
  BY <1>1, SafeAlways, PTL

(* When the sweep begins every gray object has been visited: what the       *)
(* barrier or a late aadd put on the mark stack was marked by mark().       *)
THEOREM AllVisited ==
  ASSUME LoadsShaded
  PROVE  Spec => []NoGrayLeft
<1>1. Safe => NoGrayLeft
  BY SafeLive
<1> QED
  BY <1>1, SafeAlways, PTL

(* From the moment the locks are taken (again) to the sweep no black object *)
(* holds something the sweep will free.                                     *)
THEOREM NoBlackToWhite ==
  ASSUME LoadsShaded
  PROVE  Spec => []TriColor
<1>1. Safe => TriColor
  BY SafeLive
<1> QED
  BY <1>1, SafeAlways, PTL

-----------------------------------------------------------------------------
(* What is loaded out of vrefs or moved by blkenv may be white, and the     *)
(* barrier may put it on the mark stack as long as mark_phase is on.  But   *)
(* it tests mark_phase and shades with the assign locks held, so nothing    *)
(* becomes gray once they are taken again - except in aadd.                 *)
Barred ==
  /\ Typed
  /\ mark_phase => gc \in {"sync", "relock"}
  /\ \A m \in Mutator : pc[m] \notin {"copied", "shade", "added"}
  /\ \A x \in Node : color[x] = "gray" =>
       gc \in {"scan", "sync", "relock", "final"} /\ x \in mark_stack

LEMMA InitBarred == Init => Barred
<1> SUFFICES ASSUME Init PROVE Barred
  OBVIOUS
<1>1. Typed
  BY InitTyped
<1>2. /\ mark_phase = FALSE /\ gc = "idle"
      /\ \A m \in Mutator : pc[m] = "run"
      /\ \A x \in Node : color[x] # "gray"
  BY DEF Init
<1> QED
  BY <1>1, <1>2 DEF Barred

(* What turns gray goes on the mark stack.                                  *)
LEMMA TurnsGray ==
  ASSUME NEW S
  PROVE  /\ mark_stack \subseteq ShadedStack(S)
         /\ \A x \in Node : ShadedColor(S)[x] = "gray" =>
              x \in ShadedStack(S) \/ color[x] = "gray"
BY DEF ShadedColor, ShadedStack

LEMMA OperationBarred ==
  ASSUME "aadd" \notin Ops, Barred, Typed', NEW m \in Mutator, Operation(m)
  PROVE  Barred'
<1>1. /\ color \in [Node -> {"white", "gray", "black"}]
      /\ pc \in [Mutator -> {"run", "ret", "makeref", "setref",
                             "copied", "shade", "added", "moved"}]
      /\ mark_phase => gc \in {"sync", "relock"}
      /\ pc[m] \notin {"copied", "shade", "added"}
  BY DEF Barred, Typed, TypeOK
<1>2. mark_phase' = mark_phase /\ gc' = gc
  BY DEF Operation, Push, PushLocal, Pop, Index, Store, Assign, New, NewLeaf,
         Ret, PushRef, MakeRef, SetRef, Aadd, AaddTest, AaddShade, AaddRet,
         Remove, Blkenv, BlkenvPop, program
<1>3. ~(Aadd(m) \/ AaddTest(m) \/ AaddShade(m) \/ AaddRet(m))
  BY <1>1 DEF Aadd, AaddTest, AaddShade, AaddRet, Uses
<1>4. \A k \in Mutator : pc'[k] = pc[k] \/ pc'[k] \notin {"copied", "shade", "added"}
  BY <1>1, <1>3
  DEF Operation, Push, PushLocal, Pop, Index, Store, Assign, New, NewLeaf,
      Ret, PushRef, MakeRef, SetRef, Remove, Blkenv, BlkenvPop, program
<1>5. CASE New(m) \/ NewLeaf(m) \/ MakeRef(m)
  <2>1. /\ mark_stack' = mark_stack
        /\ \A x \in Node : color'[x] = color[x] \/ color'[x] = "black"
    BY <1>1, <1>5 DEF New, NewLeaf, MakeRef
  <2> QED
    BY <1>1, <1>2, <1>4, <2>1 DEF Barred
<1>6. CASE ~(New(m) \/ NewLeaf(m) \/ MakeRef(m))
  <2>1. UNCHANGED marks \/ \E S : Barrier(S)
    BY <1>3, <1>6
    DEF Operation, Push, PushLocal, Pop, Index, Store, Assign, Ret, PushRef,
        SetRef, Remove, Blkenv, BlkenvPop
  <2>2. UNCHANGED marks \/ (mark_phase /\ \E S : Shade(S))
    BY <2>1 DEF Barrier
  <2>3. CASE UNCHANGED marks
    BY <1>1, <1>2, <1>4, <2>3 DEF Barred, marks
  <2>4. CASE mark_phase /\ \E S : Shade(S)
    <3>1. PICK S : color' = ShadedColor(S) /\ mark_stack' = ShadedStack(S)
      BY <2>4 DEF Shade
    <3>2. gc' \in {"sync", "relock"}
      BY <1>1, <1>2, <2>4
    <3>3. \A x \in Node : color'[x] = "gray" => x \in mark_stack'
      BY <3>1, TurnsGray DEF Barred
    <3> QED
      BY <1>1, <1>2, <1>4, <3>2, <3>3 DEF Barred
  <2> QED
    BY <2>2, <2>3, <2>4
<1> QED
  BY <1>5, <1>6

LEMMA CollectorBarred ==
  ASSUME Barred, Typed', Collector
  PROVE  Barred'
<1>1. /\ Typed /\ (mark_phase => gc \in {"sync", "relock"})
      /\ \A x \in Node : color[x] = "gray" =>
           gc \in {"scan", "sync", "relock", "final"} /\ x \in mark_stack
      /\ color \in [Node -> {"white", "gray", "black"}]
      /\ holds \in [Node -> SUBSET Node]
      /\ mark_stack \subseteq Obj /\ Obj \subseteq Node
  BY DEF Barred, Typed, TypeOK, Node
<1>2. pc' = pc
  BY DEF Collector, Start, ScanThread, ScanSlot, ScanEnd, SyncPop, SyncShade,
         SyncUnlock, SyncEmpty, Relock, FinalMark, FinalEnd, Sweep, program
<1>3. CASE Start
  BY <1>1, <1>2, <1>3 DEF Barred, Start
<1>4. CASE ScanThread \/ ScanEnd \/ SyncUnlock \/ SyncEmpty \/ Relock \/ FinalEnd \/ Sweep
  BY <1>1, <1>2, <1>4 DEF Barred, ScanThread, ScanEnd, SyncUnlock, SyncEmpty, Relock,
                          FinalEnd, Sweep, marks
<1>5. CASE ScanSlot \/ SyncShade
  <2>1. /\ UNCHANGED marks \/ \E S : Shade(S)
        /\ gc' = gc /\ gc \in {"scan", "sync"} /\ mark_phase' = mark_phase
    BY <1>5 DEF ScanSlot, SyncShade
  <2>2. CASE UNCHANGED marks
    BY <1>1, <1>2, <2>1, <2>2 DEF Barred, marks
  <2>3. CASE \E S : Shade(S)
    <3>1. PICK S : color' = ShadedColor(S) /\ mark_stack' = ShadedStack(S)
      BY <2>3 DEF Shade
    <3>2. \A x \in Node : color'[x] = "gray" => x \in mark_stack'
      BY <1>1, <3>1, TurnsGray
    <3> QED
      BY <1>1, <1>2, <2>1, <3>2 DEF Barred
  <2> QED
    BY <2>1, <2>2, <2>3
<1>6. CASE SyncPop
  <2>1. PICK o \in mark_stack : /\ mark_stack' = mark_stack \ {o}
                                /\ color' = [color EXCEPT ![o] = "black"]
    BY <1>6 DEF SyncPop
  <2>2. \A x \in Node : color'[x] = "gray" => x \in mark_stack'
    BY <1>1, <2>1
  <2>3. gc' = gc /\ gc = "sync" /\ mark_phase' = mark_phase
    BY <1>6 DEF SyncPop
  <2> QED
    BY <1>1, <1>2, <2>2, <2>3 DEF Barred
<1>7. CASE FinalMark
  <2>1. PICK o \in mark_stack :
          /\ color' = [ShadedColor(holds[o]) EXCEPT ![o] = "black"]
          /\ mark_stack' = ShadedStack(holds[o]) \ {o}
    BY <1>7 DEF FinalMark
  <2>2. gc = "final" /\ gc' = "final" /\ mark_phase' = mark_phase
    BY <1>7 DEF FinalMark
  <2>3. holds[o] \in SUBSET Node /\ o \in Node
    BY <1>1
  <2>4. ShadedColor(holds[o]) \in [Node -> {"white", "gray", "black"}]
    BY <1>1, <2>3, ShadeSafe
  <2>5. \A x \in Node : color'[x] = "gray" =>
          x # o /\ ShadedColor(holds[o])[x] = "gray"
    BY <2>1, <2>3, <2>4
  <2>6. \A x \in Node : color'[x] = "gray" => x \in mark_stack'
    BY <1>1, <2>1, <2>5, TurnsGray
  <2> QED
    BY <1>1, <1>2, <2>2, <2>6 DEF Barred
<1> QED
  BY <1>3, <1>4, <1>5, <1>6, <1>7 DEF Collector

(* A program without aadd leaves nothing gray to the sweep, whatever it     *)
(* loads and although the barrier may push objects after mark_lk has found  *)
(* the mark stack empty: mark() visits them when the locks are held again.  *)
THEOREM BarredVisited ==
  ASSUME "aadd" \notin Ops
  PROVE  Spec => []NoGrayLeft
<1>1. Barred /\ [Next]_vars => Barred'
  <2> SUFFICES ASSUME Barred, [Next]_vars PROVE Barred'
    OBVIOUS
  <2>1. Typed'
    BY NextTyped DEF Barred
  <2>2. CASE Next
    BY <2>1, <2>2, OperationBarred, CollectorBarred DEF Next
  <2>3. CASE UNCHANGED vars
    BY <2>1, <2>3 DEF Barred, vars, marks, program
  <2> QED
    BY <2>2, <2>3
<1>2. Barred => NoGrayLeft
  BY DEF Barred, NoGrayLeft
<1> QED
  BY <1>1, <1>2, InitBarred, PTL DEF Spec
=============================================================================
