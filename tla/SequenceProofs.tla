--------------------------- MODULE SequenceProofs ---------------------------
(***************************************************************************)
(* Proofs about Sequence: for any exceptions, classes and begin statements *)
(* and any depth of the program, as long as the expressions of recovers    *)
(* call nothing and no jump leaves a finally that ends a break or a        *)
(* return.                                                                 *)
(*                                                                         *)
(* Neither SlotsExact nor StackExact is inductive.  A break goes by what   *)
(* the slots and records say and takes the stack and the trace from the    *)
(* record it finds: the invariant says what they were where a sequence     *)
(* began (RecordSound), and that the slots of one record end where those   *)
(* of the next begin, so that the recover found is one of the sequence     *)
(* whose record is (Between).  A return, a loop or an exit that waits for  *)
(* a finally is done by code that was compiled for that place: the         *)
(* invariant says that there is a function to return to or a loop to go    *)
(* on with below it (Goes), with nothing between that has something on the *)
(* stack.                                                                  *)
(*                                                                         *)
(* A step cuts frames off and changes the one it stops at.  Below says     *)
(* that the records of the frames that stay do; Landed (at a finally),     *)
(* Recorded (in a recover), Dropped (out of a function or loop) and Pushed *)
(* (into one) are the four ways to end.                                    *)
(***************************************************************************)
EXTENDS Sequence, SequenceTheorems, FiniteSetTheorems, WellFoundedInduction, TLAPS

-----------------------------------------------------------------------------
(* Types.                                                                   *)
Slot == Exception \cup {"NIL", "END"}
Cell == Exception \cup {"NIL", "reject", "arg", "value"}

FrameType == [kind : {"call", "loop", "sequence"}, text : Text \cup {NoText},
              phase : {"using", "body", "recover", "finally"}, seq : Int,
              exc : Cell, at : Nat]

RecordType == [stack : Nat, trace : Nat, using : Nat, frame : Nat]

Thread == [frames : Seq(FrameType), stack : Seq(Cell), trace : Nat, usingstkbuf : Seq(Slot),
           usingstk : Nat, seqjmpbuf : Seq(RecordType), seqjmp : Nat]

-----------------------------------------------------------------------------
(* The invariant.                                                           *)

(* What the first n frames have on the two stacks of the program.           *)
Cells(fr, n) == Cardinality({i \in 1..n : OnStack(fr[i])})
Calls(fr, n) == Cardinality({i \in 1..n : fr[i].kind = "call"})

(* A function below n that may return; a loop with nothing between it and n *)
(* that has something on the stack after its end.                           *)
Returns(fr, n) == \E k \in 2..n : fr[k].kind = "call"

Pending(f) == f.phase = "finally" /\ f.seq \in {-1, -2}

Loops(fr, n) ==
  \E k \in 1..n : /\ fr[k].kind = "loop"
                  /\ \A x \in k+1..n : fr[x].kind = "sequence" /\ ~Pending(fr[x])

(* The jump on which a finally at the place above n continues is possible.  *)
Goes(fr, n, seq) ==
  /\ seq >= -4
  /\ seq = -2 => Returns(fr, n)
  /\ seq \in {-3, -4} => Loops(fr, n)

FrameSound(fr, i) ==
  LET f == fr[i] IN
  /\ f.phase # "finally" => f.seq >= 0
  /\ f.phase = "finally" => Goes(fr, i - 1, f.seq)
  /\ f.kind # "sequence" => f.phase = "body"
  /\ f.kind = "call" => f.at = Cells(fr, i - 1)

Nested(fr) == Len(fr) >= 1 /\ fr[1].kind = "call" /\ \A i \in 1..Len(fr) : FrameSound(fr, i)

Alive(f) == f.kind = "sequence" /\ f.phase \in {"body", "recover"}

Start(t, n) == IF n > t.seqjmp THEN t.usingstk ELSE t.seqjmpbuf[n].using

(* The slots from a on are those of l.                                      *)
Written(buf, a, l) == \A k \in 1..Len(l) : buf[a + k] = l[k]

RecordSound(t, n) ==
  LET e == t.seqjmpbuf[n]
      f == t.frames[e.frame] IN
  /\ e.frame \in 1..Len(t.frames) /\ Alive(f)
  /\ e.stack = Cells(t.frames, e.frame - 1) /\ e.trace = Calls(t.frames, e.frame - 1)
  /\ Start(t, n + 1) = Start(t, n) + Len(SlotsOf(f))
  /\ Written(t.usingstkbuf, Start(t, n), SlotsOf(f))

Records(t) ==
  /\ t.seqjmp <= Len(t.seqjmpbuf) /\ t.usingstk <= Len(t.usingstkbuf)
  /\ \A n \in 1..t.seqjmp : RecordSound(t, n)
  /\ \A i \in 1..Len(t.frames) : Alive(t.frames[i]) => \E n \in 1..t.seqjmp : t.seqjmpbuf[n].frame = i
  /\ \A m, n \in 1..t.seqjmp : m < n => t.seqjmpbuf[m].frame < t.seqjmpbuf[n].frame
  /\ \A m, n \in 1..(t.seqjmp + 1) : m <= n => Start(t, m) <= Start(t, n)
  /\ Start(t, 1) = 0

Sane(t) ==
  /\ t \in Thread
  /\ Nested(t.frames)
  /\ Records(t)
  /\ t.trace = Calls(t.frames, Len(t.frames))

High(t) == Len(t.stack) = Cells(t.frames, Len(t.frames))

Settled(t) == \A i \in 1..Len(t.frames) : t.frames[i].phase # "using"

(* The innermost sequence is about to begin: its record is there, and some  *)
(* of its slots.                                                            *)
Prepared(t) ==
  LET f == t.frames[Len(t.frames)]
      e == t.seqjmpbuf[t.seqjmp + 1] IN
  /\ f.kind = "sequence" /\ f.phase = "using"
  /\ \A i \in 1..(Len(t.frames) - 1) : t.frames[i].phase # "using"
  /\ t.seqjmp + 1 <= Len(t.seqjmpbuf)
  /\ e.stack = Len(t.stack) /\ e.trace = t.trace /\ e.using = t.usingstk
  /\ f.seq <= Len(Slots(f.text)) /\ t.usingstk + f.seq <= Len(t.usingstkbuf)
  /\ \A k \in 1..f.seq : t.usingstkbuf[t.usingstk + k] = Slots(f.text)[k]

Exact(t) == Sane(t) /\ High(t) /\ (Settled(t) \/ Prepared(t))

IInv == Exact(th) /\ use \in Uses

(* The expressions of recovers call nothing, and no jump leaves a finally   *)
(* that ends a break or a return.                                           *)
Disciplined == \A u \in Uses : ~u.calls /\ ~u.leaks

-----------------------------------------------------------------------------
(* Numbers and counts.                                                      *)

LEMMA Least ==
  ASSUME NEW S \in SUBSET Nat, S # {}
  PROVE  \E n \in S : \A m \in S : n <= m
<1> DEFINE R == OpToRel(<, Nat)
<1>1. IsWellFoundedOn(R, Nat)
  BY NatLessThanWellFounded
<1>2. \A x, y \in Nat : y < x => <<y, x>> \in R
  BY DEF OpToRel
<1> HIDE DEF R
<1>3. PICK x \in S : \A y \in S : <<y, x>> \notin R
  BY <1>1, WFMin
<1>4. \A y \in S : ~(y < x)
  BY <1>2, <1>3
<1> QED
  BY <1>4

LEMMA MaxOf ==
  ASSUME NEW N \in Nat, NEW S \in SUBSET (0..N), S # {}
  PROVE  Max(S) \in S /\ \A m \in S : m <= Max(S)
<1> DEFINE D == {N - x : x \in S}
<1>1. D \in SUBSET Nat /\ D # {}
  <2>1. \A x \in S : N - x \in Nat
    OBVIOUS
  <2> QED
    BY <2>1
<1>2. PICK d \in D : \A j \in D : d <= j
  BY <1>1, Least
<1>3. PICK x \in S : d = N - x
  OBVIOUS
<1>4. \A y \in S : N - x <= N - y
  BY <1>2, <1>3
<1>5. \A y \in S : x >= y
  BY <1>4
<1>6. Max(S) \in S /\ \A m \in S : Max(S) >= m
  BY <1>5 DEF Max
<1> QED
  BY <1>6

(* Counting among the places up to n.                                       *)
LEMMA CountStep ==
  ASSUME NEW n \in Nat, NEW S
  PROVE  /\ Cardinality((1..n) \cap S) \in Nat
         /\ Cardinality((1..(n + 1)) \cap S)
              = Cardinality((1..n) \cap S) + (IF n + 1 \in S THEN 1 ELSE 0)
         /\ Cardinality((1..0) \cap S) = 0
<1> DEFINE T == (1..n) \cap S
           V == (1..(n + 1)) \cap S
<1>1. IsFiniteSet(T)
  <2>1. IsFiniteSet(1..n)
    BY FS_Interval
  <2>2. T \in SUBSET (1..n)
    OBVIOUS
  <2> QED
    BY <2>1, <2>2, FS_Subset
<1>2. Cardinality(T) \in Nat
  BY <1>1, FS_CardinalityType
<1>3. n + 1 \in S => V = T \cup {n + 1} /\ n + 1 \notin T
  OBVIOUS
<1>4. n + 1 \notin S => V = T
  OBVIOUS
<1>5. Cardinality(V) = Cardinality(T) + (IF n + 1 \in S THEN 1 ELSE 0)
  <2>1. CASE n + 1 \in S
    <3> HIDE DEF T, V
    <3>1. Cardinality(T \cup {n + 1}) = Cardinality(T) + 1
      BY <1>1, <1>3, <2>1, FS_AddElement
    <3> QED
      BY <1>3, <2>1, <3>1
  <2>2. CASE n + 1 \notin S
    <3> HIDE DEF T, V
    <3> QED
      BY <1>2, <1>4, <2>2
  <2> QED
    BY <2>1, <2>2
<1>6. (1..0) \cap S = {}
  OBVIOUS
<1> QED
  BY <1>2, <1>5, <1>6, FS_EmptySet

LEMMA CountFrames ==
  ASSUME NEW fr, NEW n \in Nat
  PROVE  /\ Cells(fr, n) \in Nat /\ Calls(fr, n) \in Nat
         /\ Cells(fr, n + 1) = Cells(fr, n) + (IF OnStack(fr[n + 1]) THEN 1 ELSE 0)
         /\ Calls(fr, n + 1) = Calls(fr, n) + (IF fr[n + 1].kind = "call" THEN 1 ELSE 0)
         /\ Cells(fr, 0) = 0 /\ Calls(fr, 0) = 0
<1> DEFINE S == {i \in 1..(n + 1) : OnStack(fr[i])}
           T == {i \in 1..(n + 1) : fr[i].kind = "call"}
<1>1. /\ {i \in 1..n : OnStack(fr[i])} = (1..n) \cap S
      /\ {i \in 1..(n + 1) : OnStack(fr[i])} = (1..(n + 1)) \cap S
      /\ {i \in 1..0 : OnStack(fr[i])} = (1..0) \cap S
      /\ n + 1 \in S <=> OnStack(fr[n + 1])
  OBVIOUS
<1>2. /\ {i \in 1..n : fr[i].kind = "call"} = (1..n) \cap T
      /\ {i \in 1..(n + 1) : fr[i].kind = "call"} = (1..(n + 1)) \cap T
      /\ {i \in 1..0 : fr[i].kind = "call"} = (1..0) \cap T
      /\ n + 1 \in T <=> fr[n + 1].kind = "call"
  OBVIOUS
<1> HIDE DEF S, T
<1>3. /\ Cells(fr, n) \in Nat /\ Cells(fr, 0) = 0
      /\ Cells(fr, n + 1) = Cells(fr, n) + (IF OnStack(fr[n + 1]) THEN 1 ELSE 0)
  BY <1>1, CountStep DEF Cells
<1>4. /\ Calls(fr, n) \in Nat /\ Calls(fr, 0) = 0
      /\ Calls(fr, n + 1) = Calls(fr, n) + (IF fr[n + 1].kind = "call" THEN 1 ELSE 0)
  BY <1>2, CountStep DEF Calls
<1> QED
  BY <1>3, <1>4

(* The same frames up to n.                                                 *)
LEMMA CountSame ==
  ASSUME NEW fr, NEW gr, NEW n \in Nat, \A i \in 1..n : gr[i] = fr[i]
  PROVE  Cells(gr, n) = Cells(fr, n) /\ Calls(gr, n) = Calls(fr, n)
<1>1. {i \in 1..n : OnStack(gr[i])} = {i \in 1..n : OnStack(fr[i])}
  OBVIOUS
<1>2. {i \in 1..n : gr[i].kind = "call"} = {i \in 1..n : fr[i].kind = "call"}
  OBVIOUS
<1> QED
  BY <1>1, <1>2 DEF Cells, Calls

(* Nothing above m that counts.                                             *)
LEMMA NoCells ==
  ASSUME NEW fr, NEW m \in Nat, NEW n \in Nat, m <= n, \A i \in m+1..n : ~OnStack(fr[i])
  PROVE  Cells(fr, n) = Cells(fr, m)
<1>1. {i \in 1..n : OnStack(fr[i])} = {i \in 1..m : OnStack(fr[i])}
  OBVIOUS
<1> QED
  BY <1>1 DEF Cells

LEMMA NoCalls ==
  ASSUME NEW fr, NEW m \in Nat, NEW n \in Nat, m <= n, \A i \in m+1..n : fr[i].kind # "call"
  PROVE  Calls(fr, n) = Calls(fr, m)
<1>1. {i \in 1..n : fr[i].kind = "call"} = {i \in 1..m : fr[i].kind = "call"}
  OBVIOUS
<1> QED
  BY <1>1 DEF Calls

-----------------------------------------------------------------------------
(* The slots of a text.                                                     *)

TextType == [recs : Seq(Exception \cup {"NIL"}), fin : BOOLEAN, block : {"NIL", "reject"}]

LEMMA Texts == Text \cup {NoText} \subseteq TextType
<1>1. NoText \in TextType
  <2> DEFINE l == <<>>
  <2>1. l \in Seq(Exception \cup {"NIL"})
    OBVIOUS
  <2>2. NoText = [recs |-> l, fin |-> FALSE, block |-> "NIL"]
    BY DEF NoText
  <2> HIDE DEF l
  <2> QED
    BY <2>1, <2>2 DEF TextType
<1> QED
  BY <1>1, TextAssumption DEF TextType

LEMMA ReverseSeq ==
  ASSUME NEW S, NEW l \in Seq(S)
  PROVE  Reverse(l) \in Seq(S) /\ Len(Reverse(l)) = Len(l)
<1>1. \A i \in 1..Len(l) : l[Len(l) - i + 1] \in S
  OBVIOUS
<1>2. Reverse(l) = [i \in 1..Len(l) |-> l[Len(l) - i + 1]]
  BY DEF Reverse
<1>3. Reverse(l) \in [1..Len(l) -> S] /\ DOMAIN Reverse(l) = 1..Len(l)
  BY <1>1, <1>2
<1> QED
  BY <1>3

(* A text has slots; only the first may be an END, that of its finally.     *)
LEMMA SlotsSound ==
  ASSUME NEW text \in Text \cup {NoText}
  PROVE  /\ Slots(text) \in Seq(Slot) /\ Len(Slots(text)) >= 1
         /\ text.fin => Slots(text)[1] = "END"
         /\ \A k \in 1..Len(Slots(text)) : Slots(text)[k] = "END" => text.fin /\ k = 1
<1> DEFINE R == Recovers(text)
           V == Reverse(R)
           S == Exception \cup {"NIL"}
           l == <<>>
<1>1. text \in TextType
  BY Texts
<1>2. R \in Seq(S) /\ (text.fin \/ Len(R) >= 1)
  <2>1. CASE text.recs = l /\ ~text.fin
    <3>1. R = <<"NIL">>
      BY <2>1 DEF Recovers
    <3> QED
      BY <3>1
  <2>2. CASE ~(text.recs = l /\ ~text.fin)
    <3>1. R = text.recs
      BY <2>2 DEF Recovers
    <3>2. text.recs \in Seq(S)
      BY <1>1 DEF TextType
    <3>3. text.recs # l => Len(text.recs) >= 1
      BY <3>2
    <3> HIDE DEF R, l
    <3> QED
      BY <2>2, <3>1, <3>2, <3>3
  <2> QED
    BY <2>1, <2>2
<1> HIDE DEF R
<1>3. V \in Seq(S) /\ Len(V) = Len(R)
  BY <1>2, ReverseSeq
<1>4. \A k \in 1..Len(V) : V[k] \in S
  BY <1>3
<1>5. S \subseteq Slot /\ "END" \notin S
  BY ExceptionAssumption DEF Slot
<1> HIDE DEF V, S
<1>6. V \in Seq(Slot)
  <2>1. V = [i \in 1..Len(V) |-> V[i]] /\ Len(V) \in Nat
    BY <1>3
  <2>2. V \in [1..Len(V) -> Slot]
    BY <1>4, <1>5, <2>1
  <2> QED
    BY <2>1, <2>2
<1>7. CASE text.fin
  <2> DEFINE c == <<"END">>
  <2>1. Slots(text) = c \o V
    BY <1>7 DEF Slots, V, R
  <2>2. c \in Seq(Slot) /\ Len(c) = 1 /\ c[1] = "END"
    BY DEF Slot
  <2> HIDE DEF c
  <2>a. /\ c \o V \in Seq(Slot) /\ Len(c \o V) = Len(c) + Len(V)
        /\ \A i \in 1..(Len(c) + Len(V)) : (c \o V)[i] = IF i <= Len(c) THEN c[i] ELSE V[i - Len(c)]
    BY <1>6, <2>2, ConcatProperties
  <2>b. Len(V) \in Nat
    BY <1>3
  <2>3. c \o V \in Seq(Slot) /\ Len(c \o V) = 1 + Len(V) /\ (c \o V)[1] = "END"
    BY <2>a, <2>b, <2>2
  <2>4. \A k \in 1..Len(c \o V) : k > 1 => (c \o V)[k] = V[k - 1]
    BY <2>a, <2>b, <2>2
  <2>5. \A k \in 1..Len(c \o V) : k > 1 => k - 1 \in 1..Len(V)
    BY <2>3, <1>3
  <2>6. \A k \in 1..Len(c \o V) : (c \o V)[k] = "END" => k = 1
    BY <1>4, <1>5, <2>4, <2>5
  <2>7. Len(V) \in Nat
    BY <1>3
  <2> QED
    BY <1>7, <2>1, <2>3, <2>6, <2>7
<1>8. CASE ~text.fin
  <2>1. Slots(text) = l \o V
    BY <1>8 DEF Slots, V, R
  <2>2. l \o V = V
    BY <1>6
  <2> HIDE DEF l
  <2> QED
    BY <1>2, <1>3, <1>4, <1>5, <1>6, <1>8, <2>1, <2>2
<1> QED
  BY <1>7, <1>8

(* The slots a frame has while it is executed.                              *)
LEMMA SlotsOfFrame ==
  ASSUME NEW f \in FrameType
  PROVE  /\ SlotsOf(f) \in Seq(Slot) /\ Len(SlotsOf(f)) \in Nat
         /\ f.phase = "body" => SlotsOf(f) = Slots(f.text)
         /\ f.phase # "body" => /\ Len(SlotsOf(f)) = IF f.text.fin THEN 1 ELSE 0
                                /\ \A k \in 1..Len(SlotsOf(f)) : SlotsOf(f)[k] = "END"
<1> DEFINE l == <<>>
           c == <<"END">>
<1>1. l \in Seq(Slot) /\ Len(l) = 0 /\ c \in Seq(Slot) /\ Len(c) = 1 /\ c[1] = "END"
  BY DEF Slot
<1>2. SlotsOf(f) = IF f.phase = "body" THEN Slots(f.text) ELSE IF f.text.fin THEN c ELSE l
  BY DEF SlotsOf
<1>3. f.text \in Text \cup {NoText}
  BY DEF FrameType
<1> HIDE DEF l, c
<1>4. Slots(f.text) \in Seq(Slot)
  BY <1>3, SlotsSound
<1>5. CASE f.phase = "body"
  BY <1>2, <1>4, <1>5
<1>6. CASE f.phase # "body" /\ f.text.fin
  <2>1. SlotsOf(f) = c
    BY <1>2, <1>6
  <2>2. \A k \in 1..Len(c) : c[k] = "END"
    BY <1>1
  <2>3. SlotsOf(f) \in Seq(Slot) /\ Len(SlotsOf(f)) = 1
    BY <1>1, <2>1
  <2>4. \A k \in 1..Len(SlotsOf(f)) : SlotsOf(f)[k] = "END"
    BY <2>1, <2>2
  <2> QED
    BY <1>6, <2>3, <2>4
<1>7. CASE f.phase # "body" /\ ~f.text.fin
  <2>1. SlotsOf(f) = l
    BY <1>2, <1>7
  <2> QED
    BY <1>1, <1>7, <2>1
<1> QED
  BY <1>5, <1>6, <1>7

-----------------------------------------------------------------------------
(* Sequences that are cut, extended and written.                            *)

LEMMA Prefix ==
  ASSUME NEW S, NEW s \in Seq(S), NEW k \in 0..Len(s)
  PROVE  /\ SubSeq(s, 1, k) \in Seq(S) /\ Len(SubSeq(s, 1, k)) = k
         /\ \A i \in 1..k : SubSeq(s, 1, k)[i] = s[i]
<1>1. \A i \in 1..k : s[i] \in S
  OBVIOUS
<1>2. k \in Int /\ 1 \in Int
  OBVIOUS
<1>3. /\ SubSeq(s, 1, k) \in Seq(S) /\ Len(SubSeq(s, 1, k)) = IF 1 <= k THEN k - 1 + 1 ELSE 0
      /\ \A i \in 1..k-1+1 : SubSeq(s, 1, k)[i] = s[1 + i - 1]
  BY <1>1, <1>2, SubSeqProperties
<1> QED
  BY <1>3

LEMMA Extend ==
  ASSUME NEW S, NEW s \in Seq(S), NEW v \in S
  PROVE  /\ Append(s, v) \in Seq(S) /\ Len(Append(s, v)) = Len(s) + 1
         /\ Append(s, v)[Len(s) + 1] = v
         /\ \A i \in 1..Len(s) : Append(s, v)[i] = s[i]
OBVIOUS

LEMMA Cutting ==
  ASSUME NEW S, NEW s \in Seq(S), Len(s) >= 1
  PROVE  /\ Front(s) \in Seq(S) /\ Len(Front(s)) = Len(s) - 1
         /\ \A i \in 1..(Len(s) - 1) : Front(s)[i] = s[i]
         /\ Last(s) \in S
<1>1. Len(s) - 1 \in 0..Len(s) /\ s[Len(s)] \in S
  OBVIOUS
<1> DEFINE k == Len(s) - 1
<1>2. Front(s) = SubSeq(s, 1, k) /\ Last(s) = s[Len(s)]
  BY DEF Front, Last
<1>3. k \in 0..Len(s)
  BY <1>1
<1> HIDE DEF k
<1>4. /\ Front(s) \in Seq(S) /\ Len(Front(s)) = k
      /\ \A i \in 1..k : Front(s)[i] = s[i]
  BY <1>2, <1>3, Prefix
<1> QED
  BY <1>1, <1>2, <1>4 DEF k

LEMMA Places ==
  ASSUME NEW S, "NIL" \in S, NEW s \in Seq(S), NEW n \in Nat
  PROVE  Place(s, n) \in S
<1>1. DOMAIN s = 1..Len(s) /\ \A i \in 1..Len(s) : s[i] \in S
  OBVIOUS
<1> QED
  BY <1>1 DEF Place

LEMMA Heights ==
  ASSUME NEW s \in Seq(Cell), NEW n \in Nat
  PROVE  Height(s, n) \in Seq(Cell) /\ Len(Height(s, n)) = n
<1>1. \A i \in 1..n : Place(s, i) \in Cell
  BY Places DEF Cell
<1> QED
  BY <1>1 DEF Height

LEMMA Storing ==
  ASSUME NEW buf \in Seq(Slot), NEW n \in Nat \ {0}, NEW v \in Slot
  PROVE  /\ Stored(buf, n, v) \in Seq(Slot)
         /\ Len(Stored(buf, n, v)) >= n /\ Len(Stored(buf, n, v)) >= Len(buf)
         /\ Stored(buf, n, v)[n] = v
         /\ \A k \in 1..Len(buf) : k # n => Stored(buf, n, v)[k] = buf[k]
<1> DEFINE N == Max({n, Len(buf)})
<1>0. Len(buf) \in Nat /\ n + Len(buf) \in Nat /\ {n, Len(buf)} \in SUBSET (0..(n + Len(buf)))
  OBVIOUS
<1>1. N \in {n, Len(buf)} /\ N >= n /\ N >= Len(buf)
  <2>1. N \in {n, Len(buf)} /\ \A m \in {n, Len(buf)} : m <= N
    BY <1>0, MaxOf
  <2> QED
    BY <1>0, <2>1
<1>2. N \in Nat
  BY <1>0, <1>1
<1> HIDE DEF N
<1>3. Stored(buf, n, v) = [i \in 1..N |-> IF i = n THEN v ELSE Place(buf, i)]
  BY DEF Stored, N
<1>4. \A i \in 1..N : (IF i = n THEN v ELSE Place(buf, i)) \in Slot
  BY <1>2, Places DEF Slot
<1>5. Stored(buf, n, v) \in Seq(Slot) /\ Len(Stored(buf, n, v)) = N
  BY <1>2, <1>3, <1>4
<1>6. DOMAIN buf = 1..Len(buf)
  OBVIOUS
<1>7. \A k \in 1..Len(buf) : Place(buf, k) = buf[k]
  BY <1>6 DEF Place
<1>8. \A k \in 1..N : Stored(buf, n, v)[k] = IF k = n THEN v ELSE Place(buf, k)
  BY <1>3
<1>9. n \in 1..N /\ \A k \in 1..Len(buf) : k \in 1..N
  BY <1>0, <1>1, <1>2
<1> QED
  BY <1>1, <1>5, <1>7, <1>8, <1>9

-----------------------------------------------------------------------------
(* A step keeps the frames below m and the records of their sequences, the  *)
(* first p.                                                                 *)

Agree(fr, gr, n) == \A i \in 1..n : gr[i] = fr[i]

LEMMA SameWays ==
  ASSUME NEW fr, NEW gr, NEW n \in Nat, Agree(fr, gr, n), NEW seq, Goes(fr, n, seq)
  PROVE  Goes(gr, n, seq)
<1>1. \A k \in 1..n : gr[k] = fr[k]
  BY DEF Agree
<1>2. Returns(fr, n) => Returns(gr, n)
  <2>1. \A k \in 2..n : k \in 1..n
    OBVIOUS
  <2> QED
    BY <1>1, <2>1 DEF Returns
<1>3. Loops(fr, n) => Loops(gr, n)
  <2> SUFFICES ASSUME NEW k \in 1..n, fr[k].kind = "loop",
                      \A x \in k+1..n : fr[x].kind = "sequence" /\ ~Pending(fr[x])
               PROVE  Loops(gr, n)
    BY DEF Loops
  <2>1. gr[k].kind = "loop" /\ \A x \in k+1..n : gr[x] = fr[x]
    BY <1>1
  <2>2. \A x \in k+1..n : gr[x].kind = "sequence" /\ ~Pending(gr[x])
    BY <2>1
  <2> QED
    BY <2>1, <2>2 DEF Loops
<1> QED
  BY <1>2, <1>3 DEF Goes

LEMMA SameSound ==
  ASSUME NEW fr, NEW gr, NEW i \in Nat \ {0}, Agree(fr, gr, i), FrameSound(fr, i)
  PROVE  FrameSound(gr, i)
<1>1. gr[i] = fr[i] /\ (\A k \in 1..i-1 : gr[k] = fr[k]) /\ i - 1 \in Nat
  BY DEF Agree
<1>2. Cells(gr, i - 1) = Cells(fr, i - 1)
  BY <1>1, CountSame
<1>3. \A seq : Goes(fr, i - 1, seq) => Goes(gr, i - 1, seq)
  BY <1>1, SameWays DEF Agree
<1> QED
  BY <1>1, <1>2, <1>3 DEF FrameSound

LEMMA NestedCut ==
  ASSUME NEW fr, NEW gr \in Seq(FrameType), Nested(fr), NEW m \in 2..(Len(fr) + 1),
         Len(fr) \in Nat, Agree(fr, gr, m - 1), Len(gr) = m - 1
  PROVE  Nested(gr)
<1>1. \A i \in 1..(m - 1) : FrameSound(fr, i) /\ Agree(fr, gr, i)
  BY DEF Nested, Agree
<1>2. \A i \in 1..(m - 1) : FrameSound(gr, i)
  BY <1>1, SameSound
<1>3. gr[1] = fr[1]
  BY DEF Agree
<1> QED
  BY <1>2, <1>3 DEF Nested

LEMMA NestedNew ==
  ASSUME NEW fr, NEW gr \in Seq(FrameType), Nested(fr), NEW m \in 2..(Len(fr) + 1),
         Len(fr) \in Nat, Agree(fr, gr, m - 1), Len(gr) = m, FrameSound(gr, m)
  PROVE  Nested(gr)
<1>1. \A i \in 1..(m - 1) : FrameSound(fr, i) /\ Agree(fr, gr, i)
  BY DEF Nested, Agree
<1>2. \A i \in 1..(m - 1) : FrameSound(gr, i)
  BY <1>1, SameSound
<1>3. gr[1] = fr[1]
  BY DEF Agree
<1>4. \A i \in 1..m : i = m \/ i \in 1..(m - 1)
  OBVIOUS
<1> QED
  BY <1>2, <1>3, <1>4 DEF Nested

Keeps(t, s, m, p) ==
  /\ m \in 1..(Len(t.frames) + 1) /\ m <= Len(s.frames) + 1
  /\ Agree(t.frames, s.frames, m - 1)
  /\ p \in 0..t.seqjmp /\ p <= s.seqjmp
  /\ \A n \in 1..p : s.seqjmpbuf[n] = t.seqjmpbuf[n]
  /\ \A n \in 1..t.seqjmp : t.seqjmpbuf[n].frame < m <=> n <= p
  /\ Start(s, p + 1) = Start(t, p + 1)
  /\ \A k \in 1..Start(t, p + 1) : s.usingstkbuf[k] = t.usingstkbuf[k]

Lower(s, m, p) ==
  /\ \A n \in 1..p : RecordSound(s, n) /\ s.seqjmpbuf[n].frame < m
  /\ \A i \in 1..(m - 1) : Alive(s.frames[i]) => \E n \in 1..p : s.seqjmpbuf[n].frame = i
  /\ \A a, b \in 1..p : a < b => s.seqjmpbuf[a].frame < s.seqjmpbuf[b].frame
  /\ \A a, b \in 1..(p + 1) : a <= b => Start(s, a) <= Start(s, b)
  /\ Start(s, 1) = 0

LEMMA Typed ==
  ASSUME NEW t \in Thread
  PROVE  /\ t.frames \in Seq(FrameType) /\ Len(t.frames) \in Nat
         /\ \A i \in 1..Len(t.frames) : t.frames[i] \in FrameType
         /\ t.stack \in Seq(Cell) /\ Len(t.stack) \in Nat
         /\ t.usingstkbuf \in Seq(Slot) /\ Len(t.usingstkbuf) \in Nat
         /\ t.seqjmpbuf \in Seq(RecordType) /\ Len(t.seqjmpbuf) \in Nat
         /\ \A n \in 1..Len(t.seqjmpbuf) : t.seqjmpbuf[n] \in RecordType
         /\ t.trace \in Nat /\ t.usingstk \in Nat /\ t.seqjmp \in Nat
BY DEF Thread

LEMMA Starts ==
  ASSUME NEW t \in Thread, t.seqjmp <= Len(t.seqjmpbuf), NEW n \in 1..(t.seqjmp + 1)
  PROVE  Start(t, n) \in Nat
<1>1. n <= t.seqjmp => t.seqjmpbuf[n] \in RecordType
  BY Typed
<1>2. t.usingstk \in Nat /\ t.seqjmp \in Nat
  BY Typed
<1> QED
  BY <1>1, <1>2 DEF Start, RecordType

LEMMA Below ==
  ASSUME NEW t \in Thread, NEW s \in Thread, NEW m, NEW p, Records(t), Keeps(t, s, m, p)
  PROVE  Lower(s, m, p)
<1> DEFINE tf == t.frames
           sf == s.frames
           tj == t.seqjmpbuf
           sj == s.seqjmpbuf
<1>1. /\ m \in Nat \ {0} /\ m <= Len(tf) + 1 /\ m <= Len(sf) + 1 /\ Len(tf) \in Nat /\ Len(sf) \in Nat
      /\ p \in Nat /\ p <= t.seqjmp /\ p <= s.seqjmp /\ t.seqjmp \in Nat /\ s.seqjmp \in Nat
      /\ t.seqjmp <= Len(tj)
  BY Typed DEF Keeps, Records
<1>2. \A n \in 1..p : sj[n] = tj[n] /\ tj[n].frame < m
  BY <1>1 DEF Keeps
<1>3. \A n \in 1..(p + 1) : Start(s, n) = Start(t, n)
  <2> SUFFICES ASSUME NEW n \in 1..(p + 1), n # p + 1 PROVE Start(s, n) = Start(t, n)
    BY DEF Keeps
  <2>1. n <= p /\ n \in 1..p /\ ~(n > t.seqjmp) /\ ~(n > s.seqjmp)
    BY <1>1
  <2> QED
    BY <1>2, <2>1 DEF Start
<1>4. \A n \in 1..(p + 1) : n \in 1..(t.seqjmp + 1) /\ Start(t, n) \in Nat /\ Start(s, n) \in Nat
  <2>1. \A n \in 1..(p + 1) : n \in 1..(t.seqjmp + 1)
    BY <1>1
  <2> QED
    BY <1>1, <1>3, <2>1, Starts
<1>5. \A a, b \in 1..(t.seqjmp + 1) : a <= b => Start(t, a) <= Start(t, b)
  BY DEF Records
<1>6. ASSUME NEW n \in 1..p PROVE RecordSound(s, n) /\ sj[n].frame < m
  <2> DEFINE e == tj[n]
             f == tf[e.frame]
             l == SlotsOf(f)
  <2>1. n \in 1..t.seqjmp /\ n \in 1..(p + 1) /\ n + 1 \in 1..(p + 1) /\ p + 1 \in 1..(p + 1)
    BY <1>1
  <2>2. RecordSound(t, n)
    BY <2>1 DEF Records
  <2>3. sj[n] = e /\ e.frame < m
    BY <1>2
  <2>4. /\ e.frame \in 1..Len(tf) /\ Alive(f)
        /\ e.stack = Cells(tf, e.frame - 1) /\ e.trace = Calls(tf, e.frame - 1)
        /\ Start(t, n + 1) = Start(t, n) + Len(l) /\ Written(t.usingstkbuf, Start(t, n), l)
    BY <2>2 DEF RecordSound
  <2>5. sf[e.frame] = f /\ e.frame \in 1..Len(sf) /\ \A i \in 1..(e.frame - 1) : sf[i] = tf[i]
    <3>1. \A i \in 1..(m - 1) : sf[i] = tf[i]
      BY DEF Keeps, Agree
    <3> DEFINE x == e.frame
    <3>a. x \in 1..Len(tf) /\ x < m
      BY <2>3, <2>4
    <3> HIDE DEF e, tf, sf, x
    <3>2. x \in Nat /\ x >= 1 /\ x <= m - 1 /\ x <= Len(sf)
      BY <1>1, <3>a
    <3>3. x \in 1..(m - 1) /\ x \in 1..Len(sf) /\ \A i \in 1..(x - 1) : i \in 1..(m - 1)
      BY <1>1, <3>2
    <3>4. sf[x] = tf[x] /\ x \in 1..Len(sf) /\ \A i \in 1..(x - 1) : sf[i] = tf[i]
      BY <3>1, <3>3
    <3> QED
      BY <3>4 DEF f, x
  <2>6. Cells(sf, e.frame - 1) = Cells(tf, e.frame - 1) /\ Calls(sf, e.frame - 1) = Calls(tf, e.frame - 1)
    <3>1. e.frame - 1 \in Nat
      BY <2>4
    <3> QED
      BY <2>5, <3>1, CountSame
  <2>7. f \in FrameType
    BY <2>4, Typed
  <2>8. l \in Seq(Slot) /\ Len(l) \in Nat
    BY <2>7, SlotsOfFrame
  <2>9. Start(t, n) \in Nat /\ Start(t, n + 1) \in Nat /\ Start(t, p + 1) \in Nat
        /\ Start(t, n + 1) <= Start(t, p + 1)
    <3>1. n + 1 <= p + 1
      BY <1>1
    <3> QED
      BY <1>4, <1>5, <2>1, <3>1
  <2>10. Written(s.usingstkbuf, Start(s, n), l)
    <3> DEFINE a == Start(t, n)
               b == Start(t, p + 1)
    <3>1. a + Len(l) <= b /\ a \in Nat /\ b \in Nat
      BY <2>4, <2>9
    <3>2. Start(s, n) = a
      BY <1>3, <2>1
    <3>3. \A k \in 1..b : s.usingstkbuf[k] = t.usingstkbuf[k]
      BY DEF Keeps
    <3> HIDE DEF a, b, l
    <3>4. \A k \in 1..Len(l) : a + k \in 1..b
      BY <2>8, <3>1
    <3>5. \A k \in 1..Len(l) : t.usingstkbuf[a + k] = l[k]
      BY <2>4 DEF Written, a
    <3> QED
      BY <3>2, <3>3, <3>4, <3>5 DEF Written
  <2>11. Start(s, n) = Start(t, n) /\ Start(s, n + 1) = Start(t, n + 1)
    BY <1>3, <2>1
  <2> HIDE DEF l, f
  <2>12. Start(s, n + 1) = Start(s, n) + Len(l)
    BY <2>4, <2>11
  <2> HIDE DEF e, tf, sf, sj, tj
  <2>13. sf[sj[n].frame] = f /\ Alive(sf[sj[n].frame])
    BY <2>3, <2>4, <2>5
  <2>14. SlotsOf(sf[sj[n].frame]) = l
    BY <2>13 DEF l
  <2>15. /\ sj[n].frame \in 1..Len(sf) /\ sj[n].stack = Cells(sf, sj[n].frame - 1)
         /\ sj[n].trace = Calls(sf, sj[n].frame - 1)
    BY <2>3, <2>4, <2>5, <2>6
  <2> QED
    BY <2>3, <2>10, <2>12, <2>13, <2>14, <2>15 DEF RecordSound, sf, sj
<1>7. ASSUME NEW i \in 1..(m - 1), Alive(sf[i]) PROVE \E n \in 1..p : sj[n].frame = i
  <2>1. i \in 1..Len(tf) /\ sf[i] = tf[i] /\ i < m
    BY <1>1 DEF Keeps, Agree
  <2>2. PICK n \in 1..t.seqjmp : tj[n].frame = i
    BY <1>7, <2>1 DEF Records
  <2>3. n <= p
    BY <2>1, <2>2 DEF Keeps
  <2>4. n \in 1..p
    BY <1>1, <2>3
  <2> QED
    BY <1>2, <2>2, <2>4
<1>8. ASSUME NEW a \in 1..p, NEW b \in 1..p, a < b PROVE sj[a].frame < sj[b].frame
  <2>1. a \in 1..t.seqjmp /\ b \in 1..t.seqjmp
    BY <1>1
  <2>2. tj[a].frame < tj[b].frame
    BY <1>8, <2>1 DEF Records
  <2> QED
    BY <1>2, <2>2
<1>9. \A a, b \in 1..(p + 1) : a <= b => Start(s, a) <= Start(s, b)
  BY <1>3, <1>4, <1>5
<1>10. Start(s, 1) = 0
  <2>1. 1 \in 1..(p + 1)
    BY <1>1
  <2> QED
    BY <1>3, <2>1 DEF Records
<1> QED
  BY <1>6, <1>7, <1>8, <1>9, <1>10 DEF Lower

LEMMA SameRecords ==
  ASSUME NEW t \in Thread, NEW s \in Thread, NEW m, NEW p, Records(t), Keeps(t, s, m, p),
         s.seqjmp = p, s.seqjmp <= Len(s.seqjmpbuf), s.usingstk <= Len(s.usingstkbuf),
         \A i \in m..Len(s.frames) : ~Alive(s.frames[i])
  PROVE  Records(s)
<1>1. Lower(s, m, p)
  BY Below
<1>2. \A i \in 1..Len(s.frames) : Alive(s.frames[i]) => i \in 1..(m - 1)
  <2>1. m \in Nat
    BY Typed DEF Keeps
  <2> QED
    BY <2>1
<1> QED
  BY <1>1, <1>2 DEF Lower, Records

LEMMA NewRecord ==
  ASSUME NEW t \in Thread, NEW s \in Thread, NEW m, NEW p, Records(t), Keeps(t, s, m, p),
         s.seqjmp = p + 1, s.seqjmp <= Len(s.seqjmpbuf), s.usingstk <= Len(s.usingstkbuf),
         Len(s.frames) = m, s.seqjmpbuf[p + 1].frame = m, RecordSound(s, p + 1)
  PROVE  Records(s)
<1>1. Lower(s, m, p)
  BY Below
<1>2. p \in Nat /\ m \in Nat
  BY Typed DEF Keeps
<1>3. \A n \in 1..s.seqjmp : n \in 1..p \/ n = p + 1
  BY <1>2
<1>4. \A i \in 1..Len(s.frames) : i \in 1..(m - 1) \/ i = m
  BY <1>2
<1>5. \A n \in 1..s.seqjmp : RecordSound(s, n)
  BY <1>1, <1>3 DEF Lower
<1>6. \A i \in 1..Len(s.frames) : Alive(s.frames[i]) => \E n \in 1..s.seqjmp : s.seqjmpbuf[n].frame = i
  <2>1. p + 1 \in 1..s.seqjmp /\ \A n \in 1..p : n \in 1..s.seqjmp
    BY <1>2
  <2> QED
    BY <1>1, <1>4, <2>1 DEF Lower
<1>7. ASSUME NEW a \in 1..s.seqjmp, NEW b \in 1..s.seqjmp, a < b
      PROVE  s.seqjmpbuf[a].frame < s.seqjmpbuf[b].frame
  <2>1. a \in 1..p
    BY <1>2, <1>7
  <2>2. CASE b \in 1..p
    BY <1>1, <1>7, <2>1, <2>2 DEF Lower
  <2>3. CASE b = p + 1
    BY <1>1, <2>1, <2>3 DEF Lower
  <2> QED
    BY <1>3, <2>2, <2>3
<1>8. \A n \in 1..(s.seqjmp + 1) : Start(s, n) \in Nat
  BY Starts
<1>9. Start(s, p + 1) <= Start(s, p + 2)
  <2> DEFINE f == s.frames[s.seqjmpbuf[p + 1].frame]
             l == SlotsOf(f)
             a == Start(s, p + 1)
             b == Start(s, p + 2)
  <2>1. f \in FrameType
    <3>1. m \in 1..Len(s.frames)
      BY <1>2 DEF Keeps
    <3> QED
      BY <3>1, Typed
  <2>2. Len(l) \in Nat
    BY <2>1, SlotsOfFrame
  <2>3. b = a + Len(l)
    BY <1>2 DEF RecordSound
  <2>4. a \in Nat /\ b \in Nat
    BY <1>2, <1>8
  <2> HIDE DEF f, l, a, b
  <2>5. a <= b
    BY <2>2, <2>3, <2>4
  <2> QED
    BY <2>5 DEF a, b
<1>10. ASSUME NEW a \in 1..(s.seqjmp + 1), NEW b \in 1..(s.seqjmp + 1), a <= b
       PROVE  Start(s, a) <= Start(s, b)
  <2>1. CASE b \in 1..(p + 1)
    <3>1. a \in 1..(p + 1)
      BY <1>2, <1>10, <2>1
    <3> QED
      BY <1>1, <1>10, <2>1, <3>1 DEF Lower
  <2>2. CASE b = p + 2 /\ a = p + 2
    BY <1>8, <2>2
  <2>3. CASE b = p + 2 /\ a \in 1..(p + 1)
    <3>1. Start(s, a) <= Start(s, p + 1)
      <4>1. p + 1 \in 1..(p + 1) /\ a <= p + 1
        BY <1>2, <2>3
      <4> QED
        BY <1>1, <2>3, <4>1 DEF Lower
    <3>2. Start(s, a) \in Nat /\ Start(s, p + 1) \in Nat /\ Start(s, p + 2) \in Nat
      BY <1>2, <1>8
    <3> QED
      BY <1>9, <2>3, <3>1, <3>2
  <2> QED
    BY <1>2, <2>1, <2>2, <2>3
<1>11. Start(s, 1) = 0
  BY <1>1 DEF Lower
<1> QED
  BY <1>5, <1>6, <1>7, <1>10, <1>11 DEF Records

-----------------------------------------------------------------------------
(* The steps, told by what they do to the frames.                           *)

(* Frame m becomes g, the frames above it go.                               *)
Replaced(fr, gr, m, g) ==
  /\ gr \in Seq(FrameType) /\ Len(gr) = m /\ gr[m] = g
  /\ Agree(fr, gr, m - 1)

LEMMA CountTop ==
  ASSUME NEW fr, NEW gr, NEW m \in Nat \ {0}, NEW g, Replaced(fr, gr, m, g)
  PROVE  /\ Cells(gr, m - 1) = Cells(fr, m - 1) /\ Calls(gr, m - 1) = Calls(fr, m - 1)
         /\ Cells(gr, m) = Cells(fr, m - 1) + (IF OnStack(g) THEN 1 ELSE 0)
         /\ Calls(gr, m) = Calls(fr, m - 1) + (IF g.kind = "call" THEN 1 ELSE 0)
<1> DEFINE k == m - 1
<1>1. k \in Nat /\ k + 1 = m
  OBVIOUS
<1>2. \A i \in 1..k : gr[i] = fr[i]
  BY DEF Replaced, Agree
<1> HIDE DEF k
<1>3. Cells(gr, k) = Cells(fr, k) /\ Calls(gr, k) = Calls(fr, k)
  BY <1>1, <1>2, CountSame
<1>4. /\ Cells(gr, k + 1) = Cells(gr, k) + (IF OnStack(gr[k + 1]) THEN 1 ELSE 0)
      /\ Calls(gr, k + 1) = Calls(gr, k) + (IF gr[k + 1].kind = "call" THEN 1 ELSE 0)
  BY <1>1, CountFrames
<1>5. gr[k + 1] = g
  BY <1>1 DEF Replaced
<1> QED
  BY <1>1, <1>3, <1>4, <1>5 DEF k

LEMMA CountSequence ==
  ASSUME NEW fr, NEW gr, NEW m \in Nat \ {0}, NEW g, Replaced(fr, gr, m, g), g.kind = "sequence"
  PROVE  /\ Calls(gr, m) = Calls(fr, m - 1) /\ Calls(gr, m - 1) = Calls(fr, m - 1)
         /\ Cells(gr, m - 1) = Cells(fr, m - 1)
<1>1. Calls(fr, m - 1) \in Nat
  <2>1. m - 1 \in Nat
    OBVIOUS
  <2> QED
    BY <2>1, CountFrames
<1>2. /\ Cells(gr, m - 1) = Cells(fr, m - 1) /\ Calls(gr, m - 1) = Calls(fr, m - 1)
      /\ Calls(gr, m) = Calls(fr, m - 1) + (IF g.kind = "call" THEN 1 ELSE 0)
  BY CountTop
<1> QED
  BY <1>1, <1>2

(* What is known of a record and of its frame.                              *)
LEMMA RecordFacts ==
  ASSUME NEW t, Sane(t), NEW j \in 1..t.seqjmp
  PROVE  /\ t.seqjmpbuf[j] \in RecordType
         /\ t.seqjmpbuf[j].frame \in 2..Len(t.frames)
         /\ t.seqjmpbuf[j].frame \in 1..Len(t.frames)
         /\ Alive(t.frames[t.seqjmpbuf[j].frame])
         /\ t.frames[t.seqjmpbuf[j].frame] \in FrameType
         /\ t.seqjmpbuf[j].stack = Cells(t.frames, t.seqjmpbuf[j].frame - 1)
         /\ t.seqjmpbuf[j].trace = Calls(t.frames, t.seqjmpbuf[j].frame - 1)
         /\ Start(t, j) = t.seqjmpbuf[j].using /\ Start(t, j) \in Nat
         /\ Start(t, j + 1) = Start(t, j) + Len(SlotsOf(t.frames[t.seqjmpbuf[j].frame]))
         /\ Start(t, j + 1) <= t.usingstk
         /\ Written(t.usingstkbuf, Start(t, j), SlotsOf(t.frames[t.seqjmpbuf[j].frame]))
         /\ \A n \in 1..t.seqjmp : t.seqjmpbuf[n].frame < t.seqjmpbuf[j].frame <=> n <= j - 1
<1> DEFINE e == t.seqjmpbuf[j]
           m == e.frame
           f == t.frames[m]
<1>1. t \in Thread /\ Nested(t.frames) /\ Records(t)
  BY DEF Sane
<1>2. RecordSound(t, j)
  BY <1>1 DEF Records
<1>3. t.seqjmp \in Nat /\ t.seqjmp <= Len(t.seqjmpbuf) /\ Len(t.seqjmpbuf) \in Nat /\ Len(t.frames) \in Nat
  BY <1>1, Typed DEF Records
<1>4. e \in RecordType /\ m \in Nat
  <2>1. j \in 1..Len(t.seqjmpbuf)
    BY <1>3
  <2>2. e \in RecordType
    BY <1>1, <2>1, Typed
  <2> QED
    BY <2>2 DEF RecordType
<1>5. m \in 1..Len(t.frames) /\ Alive(f)
  BY <1>2 DEF RecordSound
<1>6. m # 1
  <2>1. t.frames[1].kind = "call"
    BY <1>1 DEF Nested
  <2> QED
    BY <1>5, <2>1 DEF Alive
<1>7. Start(t, j) = e.using
  BY <1>3 DEF Start
<1>8. Start(t, j) \in Nat
  BY <1>4, <1>7 DEF RecordType
<1>9. Start(t, j + 1) <= t.usingstk
  <2>1. Start(t, t.seqjmp + 1) = t.usingstk
    BY <1>3 DEF Start
  <2>2. j + 1 \in 1..(t.seqjmp + 1) /\ t.seqjmp + 1 \in 1..(t.seqjmp + 1) /\ j + 1 <= t.seqjmp + 1
    BY <1>3
  <2> QED
    BY <1>1, <2>1, <2>2 DEF Records
<1>10. ASSUME NEW n \in 1..t.seqjmp PROVE t.seqjmpbuf[n].frame < m <=> n <= j - 1
  <2>1. t.seqjmpbuf[n].frame \in Nat
    <3>1. n \in 1..Len(t.seqjmpbuf)
      BY <1>3
    <3>2. t.seqjmpbuf[n] \in RecordType
      BY <1>1, <3>1, Typed
    <3> QED
      BY <3>2 DEF RecordType
  <2>2. /\ n < j => t.seqjmpbuf[n].frame < m
        /\ j < n => m < t.seqjmpbuf[n].frame
    BY <1>1 DEF Records
  <2> HIDE DEF m, e
  <2>3. n < j \/ n = j \/ j < n
    BY <1>3
  <2>4. n = j => t.seqjmpbuf[n].frame = m
    BY DEF m, e
  <2> QED
    BY <1>3, <1>4, <2>1, <2>2, <2>3, <2>4
<1>11. f \in FrameType
  BY <1>1, <1>5, Typed
<1>12. m \in 2..Len(t.frames)
  <2> HIDE DEF m
  <2> QED
    BY <1>3, <1>5, <1>6
<1> QED
  BY <1>2, <1>4, <1>5, <1>7, <1>8, <1>9, <1>10, <1>11, <1>12 DEF RecordSound

(* Control arrives at the finally of sequence j, whose record is popped.    *)
LEMMA Landed ==
  ASSUME NEW t, Sane(t), Settled(t), NEW j \in 1..t.seqjmp, NEW s \in Thread, NEW g, NEW m,
         m = t.seqjmpbuf[j].frame,
         Replaced(t.frames, s.frames, m, g),
         g.kind = "sequence", g.phase = "finally", Goes(t.frames, m - 1, g.seq),
         s.seqjmpbuf = t.seqjmpbuf, s.usingstkbuf = t.usingstkbuf,
         s.seqjmp = j - 1, s.usingstk = t.seqjmpbuf[j].using, s.trace = t.seqjmpbuf[j].trace,
         Len(s.stack) = t.seqjmpbuf[j].stack + (IF Pending(g) THEN 1 ELSE 0)
  PROVE  Exact(s)
<1> DEFINE e == t.seqjmpbuf[j]
           p == j - 1
<1>1. t \in Thread /\ Nested(t.frames) /\ Records(t)
  BY DEF Sane
<1>2. /\ m \in 2..Len(t.frames) /\ m \in Nat \ {0} /\ e.stack = Cells(t.frames, m - 1)
      /\ e.trace = Calls(t.frames, m - 1) /\ Start(t, j) = e.using /\ Start(t, j) \in Nat
      /\ \A n \in 1..t.seqjmp : t.seqjmpbuf[n].frame < m <=> n <= p
  BY RecordFacts
<1>3. /\ t.seqjmp \in Nat /\ t.seqjmp <= Len(t.seqjmpbuf) /\ Len(t.seqjmpbuf) \in Nat /\ Len(t.frames) \in Nat
      /\ t.usingstk <= Len(t.usingstkbuf) /\ t.usingstk \in Nat /\ Len(t.usingstkbuf) \in Nat
  BY <1>1, Typed DEF Records
<1>4. Len(s.frames) = m /\ s.frames[m] = g /\ Agree(t.frames, s.frames, m - 1) /\ s.frames \in Seq(FrameType)
  BY DEF Replaced
<1>5. p \in 0..t.seqjmp /\ p + 1 = j /\ s.seqjmp = p
  BY <1>3
<1>6. Start(s, p + 1) = Start(t, p + 1)
  BY <1>2, <1>5 DEF Start
<1>7. s.usingstk <= Len(s.usingstkbuf)
  <2>1. Start(t, j + 1) <= t.usingstk /\ Start(t, j + 1) = Start(t, j) + Len(SlotsOf(t.frames[m]))
        /\ t.frames[m] \in FrameType
    BY RecordFacts
  <2>2. Len(SlotsOf(t.frames[m])) \in Nat
    BY <2>1, SlotsOfFrame
  <2> DEFINE a == Start(t, j)
             b == Start(t, j + 1)
             l == Len(SlotsOf(t.frames[m]))
  <2>3. a \in Nat /\ l \in Nat /\ b = a + l /\ b <= t.usingstk
    BY <1>2, <2>1, <2>2
  <2> HIDE DEF a, b, l
  <2>4. a <= Len(t.usingstkbuf)
    BY <1>3, <2>3
  <2> QED
    BY <1>2, <2>4 DEF a
<1>8. Keeps(t, s, m, p)
  <2>1. m \in 1..(Len(t.frames) + 1) /\ m <= Len(s.frames) + 1 /\ p <= s.seqjmp
    <3>1. m \in 1..(Len(t.frames) + 1)
      BY <1>2, <1>3
    <3>2. m <= Len(s.frames) + 1
      BY <1>2, <1>4
    <3>3. p <= s.seqjmp
      BY <1>5
    <3> QED
      BY <3>1, <3>2, <3>3
  <2>2. \A n \in 1..p : s.seqjmpbuf[n] = t.seqjmpbuf[n]
    OBVIOUS
  <2>3. \A k \in 1..Start(t, p + 1) : s.usingstkbuf[k] = t.usingstkbuf[k]
    OBVIOUS
  <2> HIDE DEF p, e
  <2> QED
    BY <1>2, <1>4, <1>5, <1>6, <2>1, <2>2, <2>3 DEF Keeps
<1>9. Records(s)
  <2>1. \A i \in m..Len(s.frames) : ~Alive(s.frames[i])
    BY <1>2, <1>4 DEF Alive
  <2>2. s.seqjmp <= Len(s.seqjmpbuf)
    BY <1>3, <1>5
  <2> HIDE DEF p, e
  <2> QED
    BY <1>1, <1>5, <1>7, <1>8, <2>1, <2>2, SameRecords
<1>10. /\ Cells(s.frames, m - 1) = Cells(t.frames, m - 1)
       /\ Cells(s.frames, m) = Cells(t.frames, m - 1) + (IF OnStack(g) THEN 1 ELSE 0)
       /\ Calls(s.frames, m) = Calls(t.frames, m - 1) + (IF g.kind = "call" THEN 1 ELSE 0)
  <2>1. m \in Nat \ {0}
    BY <1>2
  <2> HIDE DEF e, p
  <2>2. Cells(s.frames, m - 1) = Cells(t.frames, m - 1)
    BY <2>1, CountTop
  <2>3. Cells(s.frames, m) = Cells(t.frames, m - 1) + (IF OnStack(g) THEN 1 ELSE 0)
    BY <2>1, CountTop
  <2>4. Calls(s.frames, m) = Calls(t.frames, m - 1) + (IF g.kind = "call" THEN 1 ELSE 0)
    BY <2>1, CountTop
  <2> QED
    BY <2>2, <2>3, <2>4
<1>11. OnStack(g) <=> Pending(g)
  BY DEF OnStack, Pending
<1>12. Nested(s.frames)
  <2>1. Goes(s.frames, m - 1, g.seq)
    <3>1. m - 1 \in Nat
      BY <1>2
    <3> QED
      BY <1>4, <3>1, SameWays
  <2>2. FrameSound(s.frames, m)
    BY <1>4, <2>1 DEF FrameSound
  <2>3. m \in 2..(Len(t.frames) + 1)
    BY <1>2, <1>3
  <2> QED
    BY <1>1, <1>3, <1>4, <2>2, <2>3, NestedNew
<1>13. Settled(s)
  <2>1. \A i \in 1..(m - 1) : s.frames[i].phase # "using"
    <3>1. \A i \in 1..(m - 1) : i \in 1..Len(t.frames) /\ s.frames[i] = t.frames[i]
      BY <1>2, <1>4 DEF Agree
    <3> QED
      BY <3>1 DEF Settled
  <2>2. \A i \in 1..Len(s.frames) : i \in 1..(m - 1) \/ i = m
    BY <1>2, <1>4
  <2> QED
    BY <1>4, <2>1, <2>2 DEF Settled
<1>14. Cells(t.frames, m - 1) \in Nat /\ Calls(t.frames, m - 1) \in Nat
  <2>1. m - 1 \in Nat
    BY <1>2
  <2> QED
    BY <2>1, CountFrames
<1>15. s.trace = Calls(s.frames, Len(s.frames)) /\ High(s)
  BY <1>2, <1>4, <1>10, <1>11, <1>14 DEF High
<1> QED
  BY <1>9, <1>12, <1>13, <1>15 DEF Exact, Sane

(* The innermost frame has no record: what is left of the invariant.        *)
LEMMA Unrecorded ==
  ASSUME NEW t, Sane(t), NEW s \in Thread, NEW g, NEW m \in 2..(Len(t.frames) + 1), NEW p,
         Keeps(t, s, m, p), Replaced(t.frames, s.frames, m, g), ~Alive(g), FrameSound(s.frames, m),
         s.seqjmp = p, s.seqjmp <= Len(s.seqjmpbuf), s.usingstk <= Len(s.usingstkbuf),
         s.trace = Calls(t.frames, m - 1) + (IF g.kind = "call" THEN 1 ELSE 0),
         Len(s.stack) = Cells(t.frames, m - 1) + (IF OnStack(g) THEN 1 ELSE 0)
  PROVE  Sane(s) /\ High(s)
<1>1. t \in Thread /\ Nested(t.frames) /\ Records(t)
  BY DEF Sane
<1>2. Len(t.frames) \in Nat
  BY <1>1, Typed
<1>3. m \in Nat \ {0}
  BY <1>2
<1>4. Len(s.frames) = m /\ s.frames[m] = g /\ Agree(t.frames, s.frames, m - 1) /\ s.frames \in Seq(FrameType)
  BY DEF Replaced
<1>5. Records(s)
  <2>1. \A i \in m..Len(s.frames) : ~Alive(s.frames[i])
    BY <1>3, <1>4
  <2> QED
    BY <1>1, <2>1, SameRecords
<1>6. Nested(s.frames)
  BY <1>1, <1>2, <1>4, NestedNew
<1>7. Cells(s.frames, m) = Cells(t.frames, m - 1) + (IF OnStack(g) THEN 1 ELSE 0)
  BY <1>3, CountTop
<1>8. Calls(s.frames, m) = Calls(t.frames, m - 1) + (IF g.kind = "call" THEN 1 ELSE 0)
  BY <1>3, CountTop
<1> QED
  BY <1>4, <1>5, <1>6, <1>7, <1>8 DEF Sane, High

(* The innermost frame is a sequence in its body or a recover, and its      *)
(* record is the last.                                                      *)
LEMMA Recorded ==
  ASSUME NEW t, Sane(t), NEW s \in Thread, NEW g \in FrameType, NEW m \in 2..Len(t.frames), NEW p,
         Keeps(t, s, m, p), Replaced(t.frames, s.frames, m, g),
         \A i \in 1..(m - 1) : t.frames[i].phase # "using",
         g.kind = "sequence", g.phase \in {"body", "recover"}, g.seq >= 0,
         s.seqjmp = p + 1, s.seqjmp <= Len(s.seqjmpbuf), s.seqjmpbuf[p + 1].frame = m,
         s.seqjmpbuf[p + 1].stack = Cells(t.frames, m - 1),
         s.seqjmpbuf[p + 1].trace = Calls(t.frames, m - 1),
         s.usingstk <= Len(s.usingstkbuf), s.usingstk = Start(t, p + 1) + Len(SlotsOf(g)),
         Written(s.usingstkbuf, Start(t, p + 1), SlotsOf(g)),
         s.trace = Calls(t.frames, m - 1),
         Len(s.stack) = Cells(t.frames, m - 1) + (IF g.phase = "body" THEN 1 ELSE 0)
  PROVE  Exact(s)
<1>1. t \in Thread /\ Nested(t.frames) /\ Records(t)
  BY DEF Sane
<1>2. Len(t.frames) \in Nat
  BY <1>1, Typed
<1>3. m \in Nat \ {0} /\ m \in 1..m /\ m \in 2..(Len(t.frames) + 1) /\ p \in Nat
  BY <1>1, <1>2, Typed DEF Keeps
<1>4. Len(s.frames) = m /\ s.frames[m] = g /\ Agree(t.frames, s.frames, m - 1) /\ s.frames \in Seq(FrameType)
  BY DEF Replaced
<1>5. Cells(s.frames, m - 1) = Cells(t.frames, m - 1)
  <2>1. \A i \in 1..(m - 1) : s.frames[i] = t.frames[i]
    BY <1>4 DEF Agree
  <2>2. m - 1 \in Nat
    BY <1>3
  <2> QED
    BY <2>1, <2>2, CountSame
<1>6. Cells(s.frames, m) = Cells(t.frames, m - 1) + (IF OnStack(g) THEN 1 ELSE 0)
  BY <1>3, CountTop
<1>7. Calls(s.frames, m) = Calls(t.frames, m - 1) /\ Calls(s.frames, m - 1) = Calls(t.frames, m - 1)
  BY <1>3, CountSequence
<1>8. RecordSound(s, p + 1)
  <2>1. Start(s, p + 1) = Start(t, p + 1)
    BY DEF Keeps
  <2>2. Start(s, p + 1 + 1) = s.usingstk
    BY <1>3 DEF Start
  <2>3. Alive(g)
    BY DEF Alive
  <2> DEFINE l == SlotsOf(g)
             a == Start(t, p + 1)
  <2>4. s.usingstk = a + Len(l) /\ Written(s.usingstkbuf, a, l) /\ Start(s, p + 1) = a
    BY <2>1
  <2>5. s.frames[s.seqjmpbuf[p + 1].frame] = g /\ s.seqjmpbuf[p + 1].frame \in 1..Len(s.frames)
    BY <1>3, <1>4
  <2>6. SlotsOf(s.frames[s.seqjmpbuf[p + 1].frame]) = l
    BY <2>5
  <2>7. /\ s.seqjmpbuf[p + 1].stack = Cells(s.frames, s.seqjmpbuf[p + 1].frame - 1)
        /\ s.seqjmpbuf[p + 1].trace = Calls(s.frames, s.seqjmpbuf[p + 1].frame - 1)
    BY <1>5, <1>7
  <2>8. /\ Start(s, p + 1 + 1) = Start(s, p + 1) + Len(SlotsOf(s.frames[s.seqjmpbuf[p + 1].frame]))
        /\ Written(s.usingstkbuf, Start(s, p + 1), SlotsOf(s.frames[s.seqjmpbuf[p + 1].frame]))
    BY <2>2, <2>4, <2>6
  <2> QED
    BY <2>3, <2>5, <2>7, <2>8 DEF RecordSound
<1>9. Records(s)
  BY <1>1, <1>4, <1>8, NewRecord
<1>10. Nested(s.frames)
  <2>1. FrameSound(s.frames, m)
    BY <1>4 DEF FrameSound
  <2> QED
    BY <1>1, <1>2, <1>3, <1>4, <2>1, NestedNew
<1>11. Settled(s)
  <2>1. \A i \in 1..(m - 1) : s.frames[i] = t.frames[i]
    BY <1>4 DEF Agree
  <2>2. \A i \in 1..Len(s.frames) : i \in 1..(m - 1) \/ i = m
    BY <1>3, <1>4
  <2> QED
    BY <1>4, <2>1, <2>2 DEF Settled
<1>12. OnStack(g) <=> g.phase = "body"
  <2>1. g.seq \in Int
    BY DEF FrameType
  <2> QED
    BY <2>1 DEF OnStack
<1>13. High(s)
  BY <1>4, <1>6, <1>12 DEF High
<1>14. s.trace = Calls(s.frames, Len(s.frames))
  BY <1>4, <1>7
<1> QED
  BY <1>9, <1>10, <1>11, <1>13, <1>14 DEF Exact, Sane

(* The frames from m on go; they have no record.                            *)
LEMMA Dropped ==
  ASSUME NEW t, Sane(t), NEW s \in Thread, NEW m \in 2..(Len(t.frames) + 1),
         \A i \in m..Len(t.frames) : ~Alive(t.frames[i]),
         \A i \in 1..(m - 1) : t.frames[i].phase # "using",
         s.frames \in Seq(FrameType), Len(s.frames) = m - 1, Agree(t.frames, s.frames, m - 1),
         s.seqjmpbuf = t.seqjmpbuf, s.usingstkbuf = t.usingstkbuf,
         s.seqjmp = t.seqjmp, s.usingstk = t.usingstk,
         s.trace = Calls(t.frames, m - 1)
  PROVE  Sane(s) /\ Settled(s) /\ (Len(s.stack) = Cells(t.frames, m - 1) => High(s))
<1> DEFINE p == t.seqjmp
<1>1. t \in Thread /\ Nested(t.frames) /\ Records(t)
  BY DEF Sane
<1>2. Len(t.frames) \in Nat /\ p \in Nat /\ Len(s.frames) \in Nat
  BY <1>1, Typed
<1>3. m - 1 \in Nat /\ m \in Nat
  BY <1>2
<1>4. \A i \in 1..(m - 1) : s.frames[i] = t.frames[i]
  BY DEF Agree
<1>5. Cells(s.frames, m - 1) = Cells(t.frames, m - 1) /\ Calls(s.frames, m - 1) = Calls(t.frames, m - 1)
  BY <1>3, <1>4, CountSame
<1>6. \A n \in 1..p : t.seqjmpbuf[n].frame < m
  <2> SUFFICES ASSUME NEW n \in 1..p PROVE t.seqjmpbuf[n].frame < m
    OBVIOUS
  <2> DEFINE x == t.seqjmpbuf[n].frame
  <2>1. x \in 1..Len(t.frames) /\ Alive(t.frames[x])
    BY RecordFacts
  <2> HIDE DEF x
  <2>2. x \notin m..Len(t.frames)
    BY <2>1
  <2>3. x < m
    BY <1>2, <1>3, <2>1, <2>2
  <2> QED
    BY <2>3 DEF x
<1>7. Keeps(t, s, m, p)
  <2>1. m \in 1..(Len(t.frames) + 1) /\ m <= Len(s.frames) + 1
    BY <1>2, <1>3
  <2>2. p \in 0..t.seqjmp /\ p <= s.seqjmp /\ \A n \in 1..t.seqjmp : t.seqjmpbuf[n].frame < m <=> n <= p
    BY <1>2, <1>6
  <2>3. Start(s, p + 1) = Start(t, p + 1)
    BY DEF Start
  <2> QED
    BY <2>1, <2>2, <2>3 DEF Keeps
<1>8. Records(s)
  <2>1. \A i \in m..Len(s.frames) : ~Alive(s.frames[i])
    BY <1>3
  <2>2. s.seqjmp <= Len(s.seqjmpbuf) /\ s.usingstk <= Len(s.usingstkbuf) /\ s.seqjmp = p
    BY <1>1 DEF Records
  <2> HIDE DEF p
  <2> QED
    BY <1>1, <1>7, <2>1, <2>2, SameRecords
<1>9. Nested(s.frames)
  BY <1>1, <1>2, NestedCut
<1>10. Settled(s)
  BY <1>4 DEF Settled
<1>11. s.trace = Calls(s.frames, Len(s.frames))
  BY <1>5
<1>12. Len(s.stack) = Cells(t.frames, m - 1) => High(s)
  BY <1>5 DEF High
<1> QED
  BY <1>8, <1>9, <1>10, <1>11, <1>12 DEF Sane

-----------------------------------------------------------------------------
(* longjmp.                                                                 *)

Land(fr, m, seq, exc) ==
  [SubSeq(fr, 1, m) EXCEPT ![m].seq = seq, ![m].exc = exc,
                           ![m].phase = IF seq > 0 THEN "recover" ELSE "finally"]

Landing(f, seq, exc) ==
  [f EXCEPT !.seq = seq, !.exc = exc, !.phase = IF seq > 0 THEN "recover" ELSE "finally"]

LEMMA Lands ==
  ASSUME NEW fr \in Seq(FrameType), NEW m \in 1..Len(fr), NEW seq \in Int, NEW exc \in Cell
  PROVE  /\ Replaced(fr, Land(fr, m, seq, exc), m, Landing(fr[m], seq, exc))
         /\ Landing(fr[m], seq, exc) \in FrameType
         /\ Landing(fr[m], seq, exc).kind = fr[m].kind
         /\ Landing(fr[m], seq, exc).text = fr[m].text
         /\ Landing(fr[m], seq, exc).seq = seq
         /\ seq > 0 => Landing(fr[m], seq, exc).phase = "recover"
         /\ ~(seq > 0) => Landing(fr[m], seq, exc).phase = "finally"
<1> DEFINE g == Landing(fr[m], seq, exc)
           c == SubSeq(fr, 1, m)
           r == Land(fr, m, seq, exc)
<1>1. fr[m] \in FrameType
  OBVIOUS
<1>2. /\ g \in FrameType /\ g.kind = fr[m].kind /\ g.text = fr[m].text /\ g.seq = seq
      /\ seq > 0 => g.phase = "recover"
      /\ ~(seq > 0) => g.phase = "finally"
  BY <1>1 DEF Landing, FrameType
<1>3. c \in Seq(FrameType) /\ Len(c) = m /\ \A i \in 1..m : c[i] = fr[i]
  <2>1. m \in 0..Len(fr)
    OBVIOUS
  <2> QED
    BY <2>1, Prefix
<1>4. r = [c EXCEPT ![m] = g]
  <2>1. c[m] = fr[m] /\ m \in DOMAIN c
    BY <1>3
  <2> QED
    BY <2>1 DEF Land, Landing
<1> HIDE DEF g, c, r
<1>5. r \in Seq(FrameType) /\ Len(r) = m /\ r[m] = g /\ \A i \in 1..(m - 1) : r[i] = c[i]
  <2>1. m \in 1..Len(c)
    BY <1>3
  <2> QED
    BY <1>2, <1>3, <1>4, <2>1
<1>6. Replaced(fr, r, m, g)
  BY <1>3, <1>5 DEF Replaced, Agree
<1> QED
  BY <1>2, <1>6 DEF g, r

(* A state after a longjmp.                                                 *)
Jumped(t, s, e, seq, exc, stack, using, jmp) ==
  /\ s \in Thread
  /\ s.frames = Land(t.frames, e.frame, seq, exc)
  /\ s.trace = e.trace /\ s.stack = stack /\ s.usingstk = using /\ s.seqjmp = jmp
  /\ s.usingstkbuf = t.usingstkbuf /\ s.seqjmpbuf = t.seqjmpbuf

LEMMA Jumps ==
  ASSUME NEW t \in Thread, NEW e \in RecordType, e.frame \in 1..Len(t.frames),
         NEW seq \in Int, NEW exc \in Cell,
         NEW stack \in Seq(Cell), NEW using \in Nat, NEW jmp \in Nat
  PROVE  Jumped(t, [longjmp(t, e, seq, exc) EXCEPT !.stack = stack, !.usingstk = using, !.seqjmp = jmp],
                e, seq, exc, stack, using, jmp)
<1> DEFINE r == Land(t.frames, e.frame, seq, exc)
           l == longjmp(t, e, seq, exc)
           s == [l EXCEPT !.stack = stack, !.usingstk = using, !.seqjmp = jmp]
<1>1. l = [t EXCEPT !.frames = r, !.trace = e.trace]
  BY DEF longjmp, Land
<1>2. r \in Seq(FrameType)
  <2>1. t.frames \in Seq(FrameType)
    BY Typed
  <2>2. Replaced(t.frames, r, e.frame, Landing(t.frames[e.frame], seq, exc))
    BY <2>1, Lands
  <2> QED
    BY <2>2 DEF Replaced
<1>3. e.trace \in Nat
  BY DEF RecordType
<1> HIDE DEF r, l
<1>4. /\ l \in Thread /\ l.frames = r /\ l.trace = e.trace
      /\ l.usingstkbuf = t.usingstkbuf /\ l.seqjmpbuf = t.seqjmpbuf
  BY <1>1, <1>2, <1>3 DEF Thread
<1>5. /\ s \in Thread /\ s.frames = l.frames /\ s.trace = l.trace
      /\ s.stack = stack /\ s.usingstk = using /\ s.seqjmp = jmp
      /\ s.usingstkbuf = l.usingstkbuf /\ s.seqjmpbuf = l.seqjmpbuf
  BY <1>4 DEF Thread
<1> HIDE DEF s
<1>6. Jumped(t, s, e, seq, exc, stack, using, jmp)
  BY <1>4, <1>5 DEF Jumped, r
<1> QED
  BY <1>6 DEF s, l

(* To a finally, with what it leaves on the stack.                          *)
LEMMA JumpLands ==
  ASSUME NEW t, Sane(t), Settled(t), NEW j \in 1..t.seqjmp, NEW seq \in {-1, -2, -3, -4}, NEW exc \in Cell,
         Goes(t.frames, t.seqjmpbuf[j].frame - 1, seq),
         NEW stack \in Seq(Cell),
         Len(stack) = t.seqjmpbuf[j].stack + (IF seq \in {-1, -2} THEN 1 ELSE 0),
         NEW s, Jumped(t, s, t.seqjmpbuf[j], seq, exc, stack, t.seqjmpbuf[j].using, j - 1)
  PROVE  Exact(s) /\ Settled(s)
<1> DEFINE e == t.seqjmpbuf[j]
           m == e.frame
           g == Landing(t.frames[m], seq, exc)
<1>1. m \in 1..Len(t.frames) /\ Alive(t.frames[m]) /\ t.frames \in Seq(FrameType)
  BY RecordFacts, Typed DEF Sane
<1>2. seq \in Int /\ ~(seq > 0)
  OBVIOUS
<1>3. /\ Replaced(t.frames, Land(t.frames, m, seq, exc), m, g)
      /\ g.kind = t.frames[m].kind /\ g.seq = seq /\ g.phase = "finally"
  <2> DEFINE fr == t.frames
  <2>1. fr \in Seq(FrameType) /\ m \in 1..Len(fr)
    BY <1>1
  <2> HIDE DEF m, fr
  <2>2. Replaced(fr, Land(fr, m, seq, exc), m, Landing(fr[m], seq, exc))
    BY <1>2, <2>1, Lands
  <2> DEFINE f == fr[m]
  <2>3. f \in FrameType
    BY <2>1
  <2> HIDE DEF f
  <2>4. /\ Landing(f, seq, exc).kind = f.kind /\ Landing(f, seq, exc).seq = seq
        /\ Landing(f, seq, exc).phase = "finally"
    BY <1>2, <2>3 DEF Landing, FrameType
  <2> QED
    BY <2>2, <2>4 DEF f, fr
<1>4. Replaced(t.frames, s.frames, m, g) /\ s \in Thread
  BY <1>3 DEF Jumped
<1>5. g.kind = "sequence"
  BY <1>1, <1>3 DEF Alive
<1>6. Pending(g) <=> seq \in {-1, -2}
  BY <1>3 DEF Pending
<1>7. Goes(t.frames, m - 1, g.seq)
  BY <1>3
<1>8. Len(s.stack) = e.stack + (IF Pending(g) THEN 1 ELSE 0)
  BY <1>6 DEF Jumped
<1>9. /\ s.seqjmpbuf = t.seqjmpbuf /\ s.usingstkbuf = t.usingstkbuf
      /\ s.seqjmp = j - 1 /\ s.usingstk = e.using /\ s.trace = e.trace
  BY DEF Jumped
<1> HIDE DEF g
<1>10. Exact(s)
  BY <1>3, <1>4, <1>5, <1>7, <1>8, <1>9, Landed
<1>11. Settled(s)
  <2>1. s.frames[m].phase = "finally" /\ Len(s.frames) = m
    BY <1>3, <1>4 DEF Replaced
  <2>2. ~Prepared(s)
    BY <2>1 DEF Prepared
  <2> QED
    BY <1>10, <2>2 DEF Exact
<1> QED
  BY <1>10, <1>11

LEMMA Untouched ==
  ASSUME NEW t \in Thread, NEW e, NEW seq, NEW exc
  PROVE  longjmp(t, e, seq, exc).stack = t.stack /\ longjmp(t, e, seq, exc).seqjmp = t.seqjmp
BY DEF longjmp, Thread

-----------------------------------------------------------------------------
(* What is innermost.                                                       *)

LEMMA InnermostIs ==
  ASSUME NEW t \in Thread, NEW kind
  PROVE  /\ Innermost(t, kind) \in 0..Len(t.frames)
         /\ Innermost(t, kind) > 0 => t.frames[Innermost(t, kind)].kind = kind
         /\ \A i \in 1..Len(t.frames) : t.frames[i].kind = kind => i <= Innermost(t, kind)
<1> DEFINE S == {0} \cup {i \in DOMAIN t.frames : t.frames[i].kind = kind}
           N == Len(t.frames)
           x == Innermost(t, kind)
<1>1. N \in Nat /\ DOMAIN t.frames = 1..N
  <2>1. t.frames \in Seq(FrameType)
    BY Typed
  <2> QED
    BY <2>1
<1>2. S \in SUBSET (0..N) /\ S # {}
  BY <1>1
<1>3. x = Max(S)
  BY DEF Innermost
<1>4. \A i \in 1..N : t.frames[i].kind = kind => i \in S
  BY <1>1
<1>5. \A i \in S : i > 0 => t.frames[i].kind = kind
  OBVIOUS
<1> HIDE DEF S, N, x
<1>6. x \in S /\ \A i \in S : i <= x
  BY <1>1, <1>2, <1>3, MaxOf
<1>7. x \in 0..N
  BY <1>2, <1>6
<1>8. x > 0 => t.frames[x].kind = kind
  BY <1>5, <1>6
<1>9. \A i \in 1..N : t.frames[i].kind = kind => i <= x
  BY <1>4, <1>6
<1> QED
  BY <1>7, <1>8, <1>9 DEF x, N

LEMMA Depth ==
  ASSUME NEW t \in Thread, NEW n \in Nat
  PROVE  Cardinality(Opened(t, n)) > 0 <=> \E i \in n+1..Len(t.frames) : Alive(t.frames[i])
<1>1. Len(t.frames) \in Int /\ n + 1 \in Int
  BY Typed
<1>2. IsFiniteSet(n+1..Len(t.frames))
  BY <1>1, FS_Interval
<1>3. Opened(t, n) \in SUBSET (n+1..Len(t.frames))
  BY DEF Opened
<1>4. IsFiniteSet(Opened(t, n))
  BY <1>2, <1>3, FS_Subset
<1>5. Cardinality(Opened(t, n)) \in Nat
  BY <1>4, FS_CardinalityType
<1>6. Cardinality(Opened(t, n)) = 0 <=> Opened(t, n) = {}
  BY <1>4, FS_EmptySet
<1>7. Opened(t, n) # {} <=> \E i \in n+1..Len(t.frames) : Alive(t.frames[i])
  BY DEF Opened, Alive
<1> QED
  BY <1>5, <1>6, <1>7

LEMMA Topmost ==
  ASSUME NEW t, Sane(t), NEW i \in 1..Len(t.frames), Alive(t.frames[i])
  PROVE  /\ t.seqjmp \in 1..t.seqjmp
         /\ t.seqjmpbuf[t.seqjmp].frame >= i
<1>1. t \in Thread /\ Records(t)
  BY DEF Sane
<1>2. PICK n \in 1..t.seqjmp : t.seqjmpbuf[n].frame = i
  BY <1>1 DEF Records
<1>3. t.seqjmp \in Nat
  BY <1>1, Typed
<1>4. t.seqjmp \in 1..t.seqjmp
  BY <1>2, <1>3
<1>5. t.seqjmpbuf[t.seqjmp].frame \in 1..Len(t.frames) /\ Len(t.frames) \in Nat
  BY <1>1, <1>4, RecordFacts, Typed
<1>6. n = t.seqjmp \/ n < t.seqjmp
  BY <1>2, <1>3
<1>7. n < t.seqjmp => t.seqjmpbuf[n].frame < t.seqjmpbuf[t.seqjmp].frame
  BY <1>1, <1>2, <1>4 DEF Records
<1> DEFINE m == t.seqjmpbuf[t.seqjmp].frame
<1>8. m = i \/ i < m
  BY <1>2, <1>6, <1>7
<1>9. m \in Nat
  BY <1>5
<1> HIDE DEF m
<1>10. m >= i
  BY <1>8, <1>9
<1> QED
  BY <1>4, <1>10 DEF m

(* begseqpop, where the jump behind the finally is possible.                *)
LEMMA Pops ==
  ASSUME NEW t, Sane(t), Settled(t), t.seqjmp \in 1..t.seqjmp, NEW seq \in {-2, -3, -4},
         Goes(t.frames, t.seqjmpbuf[t.seqjmp].frame - 1, seq),
         NEW vals \in Seq(Cell), seq = -2 => Len(vals) = 1, seq # -2 => Len(vals) = 0
  PROVE  Exact(begseqpop(t, seq, vals)) /\ Settled(begseqpop(t, seq, vals))
<1> DEFINE e == t.seqjmpbuf[t.seqjmp]
           stack == Height(t.stack, e.stack) \o vals
           jmp == t.seqjmp - 1
           s == [longjmp(t, e, seq, "NIL") EXCEPT !.stack = stack, !.usingstk = e.using, !.seqjmp = jmp]
<1>1. t \in Thread
  BY DEF Sane
<1>2. begseqpop(t, seq, vals) = s
  <2> DEFINE l == longjmp(t, e, seq, "NIL")
  <2>1. begseqpop(t, seq, vals)
          = [l EXCEPT !.stack = Height(l.stack, e.stack) \o vals, !.usingstk = e.using, !.seqjmp = l.seqjmp - 1]
    BY DEF begseqpop
  <2>2. l.stack = t.stack /\ l.seqjmp = t.seqjmp
    BY <1>1, Untouched
  <2>3. s = [l EXCEPT !.stack = stack, !.usingstk = e.using, !.seqjmp = jmp]
    OBVIOUS
  <2> HIDE DEF l, s
  <2> QED
    BY <2>1, <2>2, <2>3
<1>3. e \in RecordType /\ e.frame \in 1..Len(t.frames)
  BY RecordFacts
<1>4. e.using \in Nat /\ e.stack \in Nat
  BY <1>3 DEF RecordType
<1>5. stack \in Seq(Cell) /\ Len(stack) = e.stack + Len(vals)
  <2>1. t.stack \in Seq(Cell)
    BY <1>1, Typed
  <2>2. Height(t.stack, e.stack) \in Seq(Cell) /\ Len(Height(t.stack, e.stack)) = e.stack
    BY <1>4, <2>1, Heights
  <2> DEFINE h == Height(t.stack, e.stack)
  <2>3. h \in Seq(Cell) /\ vals \in Seq(Cell) /\ Len(h) = e.stack
    BY <2>2
  <2> HIDE DEF h, e
  <2>4. h \o vals \in Seq(Cell) /\ Len(h \o vals) = Len(h) + Len(vals)
    BY <2>3, ConcatProperties
  <2> QED
    BY <2>3, <2>4 DEF h
<1>6. jmp \in Nat /\ "NIL" \in Cell /\ seq \in Int
  BY DEF Cell
<1> HIDE DEF stack, jmp, e
<1>7. Jumped(t, s, e, seq, "NIL", stack, e.using, jmp)
  BY <1>1, <1>3, <1>4, <1>5, <1>6, Jumps
<1>8. Len(stack) = e.stack + (IF seq \in {-1, -2} THEN 1 ELSE 0)
  <2>1. CASE seq = -2
    BY <1>5, <2>1
  <2>2. CASE seq # -2
    <3>1. seq \notin {-1, -2} /\ Len(vals) = 0
      BY <2>2
    <3> QED
      BY <1>4, <1>5, <3>1
  <2> QED
    BY <2>1, <2>2
<1> HIDE DEF s
<1>9. Exact(s) /\ Settled(s)
  BY <1>5, <1>6, <1>7, <1>8, JumpLands DEF e, jmp
<1> QED
  BY <1>2, <1>9

(* return, where there is a function to return to.                          *)
LEMMA ReturnExact ==
  ASSUME NEW t, Sane(t), Settled(t), Returns(t.frames, Len(t.frames))
  PROVE  Exact(return(t)) /\ Settled(return(t))
<1> DEFINE fr == t.frames
           N == Len(fr)
           n == Innermost(t, "call")
<1>1. t \in Thread /\ Nested(fr) /\ Records(t) /\ t.trace = Calls(fr, N) /\ t.trace \in Nat
      /\ fr \in Seq(FrameType) /\ N \in Nat
  BY Typed DEF Sane
<1>2. PICK k \in 2..N : fr[k].kind = "call"
  BY DEF Returns
<1>3. n \in 2..N /\ fr[n].kind = "call" /\ \A i \in n+1..N : fr[i].kind # "call"
  <2>1. n \in 0..N /\ (n > 0 => fr[n].kind = "call") /\ \A i \in 1..N : fr[i].kind = "call" => i <= n
    BY <1>1, InnermostIs
  <2> HIDE DEF n, N, fr
  <2>2. k <= n
    BY <1>1, <1>2, <2>1
  <2> QED
    BY <1>1, <1>2, <2>1, <2>2
<1>4. RetDepth(t) > 0 <=> \E i \in n+1..N : Alive(fr[i])
  BY <1>1, <1>3, Depth DEF RetDepth
<1>5. CASE RetDepth(t) > 0
  <2>1. PICK i \in n+1..N : Alive(fr[i])
    BY <1>4, <1>5
  <2>2. i \in 1..N
    BY <1>3
  <2> DEFINE m == t.seqjmpbuf[t.seqjmp].frame
             l == <<"value">>
  <2>3. t.seqjmp \in 1..t.seqjmp /\ m >= i
    BY <2>1, <2>2, Topmost
  <2>4. m \in 1..N
    BY <2>3, RecordFacts
  <2>5. Goes(fr, m - 1, -2)
    <3> HIDE DEF m, n, N
    <3>1. n \in 2..(m - 1)
      BY <1>1, <1>3, <2>2, <2>3, <2>4
    <3>2. Returns(fr, m - 1)
      BY <1>3, <3>1 DEF Returns
    <3> QED
      BY <3>2 DEF Goes
  <2>6. l \in Seq(Cell) /\ Len(l) = 1
    BY DEF Cell
  <2>7. return(t) = begseqpop(t, -2, l)
    BY <1>5 DEF return
  <2> HIDE DEF l
  <2>8. Exact(begseqpop(t, -2, l)) /\ Settled(begseqpop(t, -2, l))
    BY <2>3, <2>5, <2>6, Pops
  <2> QED
    BY <2>7, <2>8
<1>6. CASE ~(RetDepth(t) > 0)
  <2> DEFINE cut == SubSeq(fr, 1, n - 1)
             stack == Height(t.stack, fr[n].at)
             s == [t EXCEPT !.frames = cut, !.stack = stack, !.trace = t.trace - 1]
  <2>1. return(t) = s
    BY <1>6 DEF return
  <2>2. cut \in Seq(FrameType) /\ Len(cut) = n - 1 /\ Agree(fr, cut, n - 1)
    <3>1. n - 1 \in 0..N
      BY <1>1, <1>3
    <3> HIDE DEF n, N, fr
    <3>2. /\ SubSeq(fr, 1, n - 1) \in Seq(FrameType) /\ Len(SubSeq(fr, 1, n - 1)) = n - 1
          /\ \A i \in 1..(n - 1) : SubSeq(fr, 1, n - 1)[i] = fr[i]
      BY <1>1, <3>1, Prefix DEF N
    <3> QED
      BY <3>2 DEF Agree
  <2>3. fr[n] \in FrameType /\ fr[n].at = Cells(fr, n - 1)
    <3>1. n \in 1..N
      BY <1>3
    <3>2. FrameSound(fr, n)
      BY <1>1, <3>1 DEF Nested
    <3> QED
      BY <1>1, <1>3, <3>1, <3>2 DEF FrameSound
  <2>4. stack \in Seq(Cell) /\ Len(stack) = Cells(fr, n - 1)
    <3>1. fr[n].at \in Nat /\ t.stack \in Seq(Cell)
      BY <1>1, <2>3, Typed DEF FrameType
    <3> HIDE DEF fr, n
    <3> QED
      BY <2>3, <3>1, Heights
  <2>5. t.trace - 1 = Calls(fr, n - 1) /\ t.trace - 1 \in Nat
    <3> DEFINE k1 == n - 1
    <3>1. k1 \in Nat /\ k1 + 1 = n /\ n \in Nat /\ n <= N
      BY <1>3
    <3> HIDE DEF k1, n, N, fr
    <3>2. Calls(fr, N) = Calls(fr, n)
      BY <1>1, <1>3, <3>1, NoCalls
    <3>3. Calls(fr, k1 + 1) = Calls(fr, k1) + (IF fr[k1 + 1].kind = "call" THEN 1 ELSE 0) /\ Calls(fr, k1) \in Nat
      BY <3>1, CountFrames
    <3>4. t.trace = Calls(fr, k1) + 1
      BY <1>1, <1>3, <3>1, <3>2, <3>3
    <3>5. t.trace - 1 = Calls(fr, k1) /\ t.trace - 1 \in Nat
      BY <3>3, <3>4
    <3> QED
      BY <3>5 DEF k1
  <2>6. \A i \in n..N : ~Alive(fr[i])
    <3>1. ~Alive(fr[n])
      BY <1>3 DEF Alive
    <3>2. \A i \in n..N : i = n \/ i \in n+1..N
      BY <1>3
    <3> QED
      BY <1>4, <1>6, <3>1, <3>2
  <2>7. n \in 2..(N + 1) /\ \A i \in 1..(n - 1) : fr[i].phase # "using"
    BY <1>1, <1>3 DEF Settled
  <2> HIDE DEF cut, stack
  <2>8. /\ s \in Thread /\ s.frames = cut /\ s.stack = stack /\ s.trace = t.trace - 1
        /\ s.seqjmpbuf = t.seqjmpbuf /\ s.usingstkbuf = t.usingstkbuf
        /\ s.seqjmp = t.seqjmp /\ s.usingstk = t.usingstk
    BY <1>1, <2>2, <2>4, <2>5 DEF Thread
  <2> HIDE DEF s, n, N, fr
  <2>9. Sane(s) /\ Settled(s) /\ (Len(s.stack) = Cells(fr, n - 1) => High(s))
    BY <2>2, <2>5, <2>6, <2>7, <2>8, Dropped DEF fr, N
  <2> QED
    BY <2>1, <2>4, <2>8, <2>9 DEF Exact
<1> QED
  BY <1>5, <1>6

(* loop and exit, where nothing above the loop is on the stack.             *)
LEMMA JumpExact ==
  ASSUME NEW t, Sane(t), Settled(t), High(t), Loops(t.frames, Len(t.frames))
  PROVE  /\ Exact(loop(t)) /\ Settled(loop(t))
         /\ Exact(exit(t)) /\ Settled(exit(t))
<1> DEFINE fr == t.frames
           N == Len(fr)
           n == Innermost(t, "loop")
<1>1. t \in Thread /\ Nested(fr) /\ Records(t) /\ t.trace = Calls(fr, N) /\ t.trace \in Nat
      /\ fr \in Seq(FrameType) /\ N \in Nat /\ Len(t.stack) = Cells(fr, N)
  BY Typed DEF Sane, High
<1>2. PICK k \in 1..N : fr[k].kind = "loop" /\ \A x \in k+1..N : fr[x].kind = "sequence" /\ ~Pending(fr[x])
  BY DEF Loops
<1>3. n = k /\ Max({n, Innermost(t, "call")}) = k
  <2> DEFINE c == Innermost(t, "call")
             x == Max({n, c})
  <2>1. n \in 0..N /\ (n > 0 => fr[n].kind = "loop") /\ \A i \in 1..N : fr[i].kind = "loop" => i <= n
    BY <1>1, InnermostIs
  <2>2. c \in 0..N /\ (c > 0 => fr[c].kind = "call")
    BY <1>1, InnermostIs
  <2> HIDE DEF n, N, fr, c
  <2>3. n = k
    <3>1. k <= n
      BY <1>2, <2>1
    <3>2. n \notin k+1..N
      BY <1>1, <1>2, <2>1
    <3> QED
      BY <1>1, <2>1, <3>1, <3>2
  <2>4. c < k
    <3>1. c \notin k+1..N /\ c # k
      BY <1>1, <1>2, <2>2
    <3> QED
      BY <1>1, <2>2, <3>1
  <2>5. {n, c} \in SUBSET (0..N) /\ {n, c} # {}
    BY <2>1, <2>2
  <2>6. x \in {n, c} /\ \A y \in {n, c} : y <= x
    BY <1>1, <2>5, MaxOf
  <2> HIDE DEF x
  <2>7. x = k
    BY <1>1, <2>1, <2>2, <2>3, <2>4, <2>6
  <2> QED
    BY <2>3, <2>7 DEF x, c
<1>4. k \in 2..N /\ k \in Nat
  <2>1. fr[1].kind = "call"
    BY <1>1 DEF Nested
  <2>2. k # 1
    BY <1>2, <2>1
  <2> QED
    BY <1>1, <2>2
<1>5. LoopDepth(t) > 0 <=> \E i \in k+1..N : Alive(fr[i])
  BY <1>1, <1>3, <1>4, Depth DEF LoopDepth
<1>6. CASE LoopDepth(t) > 0
  <2>1. PICK i \in k+1..N : Alive(fr[i])
    BY <1>5, <1>6
  <2>2. i \in 1..N
    BY <1>4
  <2> DEFINE m == t.seqjmpbuf[t.seqjmp].frame
             l == <<>>
  <2>3. t.seqjmp \in 1..t.seqjmp /\ m >= i
    BY <2>1, <2>2, Topmost
  <2>4. m \in 1..N
    BY <2>3, RecordFacts
  <2>5. Loops(fr, m - 1)
    <3> HIDE DEF m, n, N
    <3>1. k \in 1..(m - 1) /\ \A x \in k+1..(m - 1) : x \in k+1..N
      BY <1>1, <1>4, <2>2, <2>3, <2>4
    <3> QED
      BY <1>2, <3>1 DEF Loops
  <2>6. Goes(fr, m - 1, -3) /\ Goes(fr, m - 1, -4)
    BY <2>5 DEF Goes
  <2>7. l \in Seq(Cell) /\ Len(l) = 0
    OBVIOUS
  <2>8. loop(t) = begseqpop(t, -3, l) /\ exit(t) = begseqpop(t, -4, l)
    BY <1>6 DEF loop, exit
  <2> HIDE DEF l
  <2>9. ASSUME NEW q \in {-3, -4} PROVE Exact(begseqpop(t, q, l)) /\ Settled(begseqpop(t, q, l))
    <3>1. q \in {-2, -3, -4} /\ q # -2 /\ Goes(fr, m - 1, q)
      BY <2>6
    <3> QED
      BY <2>3, <2>7, <3>1, Pops
  <2> QED
    BY <2>8, <2>9
<1>7. CASE ~(LoopDepth(t) > 0)
  <2>1. \A i \in k+1..N : ~Alive(fr[i]) /\ ~OnStack(fr[i]) /\ fr[i].kind # "call"
    <3> SUFFICES ASSUME NEW i \in k+1..N PROVE ~Alive(fr[i]) /\ ~OnStack(fr[i]) /\ fr[i].kind # "call"
      OBVIOUS
    <3>1. fr[i].kind = "sequence" /\ ~Pending(fr[i]) /\ ~Alive(fr[i])
      BY <1>2, <1>5, <1>7
    <3>2. i \in 1..N
      BY <1>4
    <3>3. fr[i] \in FrameType /\ fr[i].phase # "using"
      BY <1>1, <3>2 DEF Settled
    <3>4. fr[i].phase = "finally"
      BY <3>1, <3>3 DEF Alive, FrameType
    <3> QED
      BY <3>1, <3>4 DEF OnStack, Pending
  <2>2. ~Alive(fr[k]) /\ ~OnStack(fr[k]) /\ fr[k].kind # "call"
    BY <1>2 DEF Alive, OnStack
  <2>3. Cells(fr, N) = Cells(fr, k) /\ Calls(fr, N) = Calls(fr, k)
    <3> HIDE DEF N, fr
    <3> QED
      BY <1>1, <1>4, <2>1, NoCells, NoCalls
  <2>4. Cells(fr, k) = Cells(fr, k - 1) /\ Calls(fr, k) = Calls(fr, k - 1)
    <3>1. k - 1 \in Nat /\ k - 1 <= k /\ \A i \in (k - 1)+1..k : i = k
      BY <1>4
    <3> HIDE DEF N, fr
    <3> QED
      BY <1>4, <2>2, <3>1, NoCells, NoCalls
  <2>5. ASSUME NEW m \in {k + 1, k}
        PROVE  /\ Exact([t EXCEPT !.frames = SubSeq(fr, 1, m - 1)])
               /\ Settled([t EXCEPT !.frames = SubSeq(fr, 1, m - 1)])
    <3> DEFINE cut == SubSeq(fr, 1, m - 1)
               s == [t EXCEPT !.frames = cut]
    <3>1. cut \in Seq(FrameType) /\ Len(cut) = m - 1 /\ Agree(fr, cut, m - 1)
      <4>1. m - 1 \in 0..N
        BY <1>1, <1>4
      <4> HIDE DEF n, N, fr
      <4>2. /\ SubSeq(fr, 1, m - 1) \in Seq(FrameType) /\ Len(SubSeq(fr, 1, m - 1)) = m - 1
            /\ \A i \in 1..(m - 1) : SubSeq(fr, 1, m - 1)[i] = fr[i]
        BY <1>1, <4>1, Prefix DEF N
      <4> QED
        BY <4>2 DEF Agree
    <3>2. Cells(fr, m - 1) = Cells(fr, N) /\ Calls(fr, m - 1) = Calls(fr, N)
      <4>1. m = k + 1 => m - 1 = k
        BY <1>4
      <4> QED
        BY <2>3, <2>4, <4>1
    <3>3. \A i \in m..N : ~Alive(fr[i])
      <4>1. \A i \in m..N : i = k \/ i \in k+1..N
        BY <1>4
      <4> QED
        BY <2>1, <2>2, <4>1
    <3>4. m \in 2..(N + 1) /\ \A i \in 1..(m - 1) : fr[i].phase # "using"
      BY <1>1, <1>4 DEF Settled
    <3> HIDE DEF cut
    <3>5. /\ s \in Thread /\ s.frames = cut /\ s.stack = t.stack /\ s.trace = t.trace
          /\ s.seqjmpbuf = t.seqjmpbuf /\ s.usingstkbuf = t.usingstkbuf
          /\ s.seqjmp = t.seqjmp /\ s.usingstk = t.usingstk
      BY <1>1, <3>1 DEF Thread
    <3>6. s.trace = Calls(fr, m - 1) /\ Len(s.stack) = Cells(fr, m - 1)
      BY <1>1, <3>2, <3>5
    <3> HIDE DEF s, n, N, fr
    <3>7. Sane(s) /\ Settled(s) /\ (Len(s.stack) = Cells(fr, m - 1) => High(s))
      BY <3>1, <3>3, <3>4, <3>5, <3>6, Dropped DEF fr, N
    <3>8. Exact(s) /\ Settled(s)
      BY <3>6, <3>7 DEF Exact
    <3> QED
      BY <3>8 DEF s, cut
  <2>6. loop(t) = [t EXCEPT !.frames = SubSeq(fr, 1, (k + 1) - 1)]
    <3>1. (k + 1) - 1 = k
      BY <1>4
    <3>2. loop(t) = [t EXCEPT !.frames = SubSeq(fr, 1, n)]
      BY <1>7 DEF loop
    <3> QED
      BY <1>3, <3>1, <3>2
  <2>7. exit(t) = [t EXCEPT !.frames = SubSeq(fr, 1, k - 1)]
    BY <1>3, <1>7 DEF exit
  <2> HIDE DEF n, N, fr
  <2>8. Exact(loop(t)) /\ Settled(loop(t))
    <3> DEFINE m == k + 1
    <3>1. m \in {k + 1, k}
      OBVIOUS
    <3>2. loop(t) = [t EXCEPT !.frames = SubSeq(fr, 1, m - 1)]
      BY <2>6
    <3> HIDE DEF m
    <3> QED
      BY <2>5, <3>1, <3>2
  <2>9. Exact(exit(t)) /\ Settled(exit(t))
    BY <2>5, <2>7
  <2> QED
    BY <2>8, <2>9
<1> QED
  BY <1>6, <1>7

(* The recover found belongs to the sequence of the record found.           *)
LEMMA Found ==
  ASSUME NEW t, Sane(t), NEW exc, NEW bbflag, NEW u, u = Search(t, exc, bbflag), u # 0,
         NEW j, j = Record(t, u)
  PROVE  /\ u \in 1..t.usingstk /\ Compatible(t.usingstkbuf[u], exc)
         /\ j \in 1..t.seqjmp
         /\ t.seqjmpbuf[j].using < u => u <= Start(t, j + 1)
<1>1. t \in Thread /\ Records(t) /\ t.usingstk \in Nat /\ t.seqjmp \in Nat
  BY Typed DEF Sane
<1>2. u \in 1..t.usingstk /\ Compatible(t.usingstkbuf[u], exc)
  <2> DEFINE A == {v \in 1..t.usingstk : Compatible(t.usingstkbuf[v], exc) /\ (bbflag => bbeval(t, v))}
             S == {0} \cup A
  <2>1. u = Max(S)
    BY DEF Search
  <2>2. S \in SUBSET (0..t.usingstk) /\ S # {}
    BY <1>1
  <2>3. \A v \in S : v = 0 \/ (v \in 1..t.usingstk /\ Compatible(t.usingstkbuf[v], exc))
    OBVIOUS
  <2> HIDE DEF A, S
  <2>4. u \in S
    BY <1>1, <2>1, <2>2, MaxOf
  <2> QED
    BY <2>3, <2>4
<1> DEFINE J == {i \in 1..t.seqjmp : LET e == t.seqjmpbuf[i] IN
                   e.using < u \/ Place(t.usingstkbuf, e.using + 1) = "END"}
<1>3. 1 \in J
  <2>1. Start(t, 1) = 0 /\ u > 0
    BY <1>1, <1>2 DEF Records
  <2>2. t.seqjmp >= 1
    <3>1. t.seqjmp = 0 => Start(t, 1) = t.usingstk
      BY DEF Start
    <3> QED
      BY <1>1, <1>2, <2>1, <3>1
  <2>3. 1 \in 1..t.seqjmp /\ t.seqjmpbuf[1].using = 0
    BY <1>1, <2>1, <2>2 DEF Start
  <2> QED
    BY <2>1, <2>3
<1>4. J \in SUBSET (0..t.seqjmp) /\ j = Max(J)
  BY <1>1 DEF Record
<1>5. \A i \in J : i \in 1..t.seqjmp
  OBVIOUS
<1>6. \A i \in 1..t.seqjmp : t.seqjmpbuf[i].using < u => i \in J
  OBVIOUS
<1> HIDE DEF J
<1>7. j \in J /\ \A i \in J : i <= j
  BY <1>1, <1>3, <1>4, MaxOf
<1>8. j \in 1..t.seqjmp
  BY <1>5, <1>7
<1>9. u <= Start(t, j + 1)
  <2>1. CASE j = t.seqjmp
    <3>1. Start(t, j + 1) = t.usingstk
      BY <1>1, <2>1 DEF Start
    <3> QED
      BY <1>2, <3>1
  <2>2. CASE j # t.seqjmp
    <3>1. j + 1 \in 1..t.seqjmp /\ ~(j + 1 <= j) /\ ~(j + 1 > t.seqjmp)
      BY <1>1, <1>8, <2>2
    <3>2. ~(t.seqjmpbuf[j + 1].using < u)
      BY <1>6, <1>7, <3>1
    <3>3. Start(t, j + 1) = t.seqjmpbuf[j + 1].using
      BY <3>1 DEF Start
    <3>4. Start(t, j + 1) \in Nat
      <4>1. Start(t, j + 1) = t.seqjmpbuf[j + 1].using /\ t.seqjmpbuf[j + 1] \in RecordType
        BY <3>1, <3>3, RecordFacts
      <4> QED
        BY <4>1 DEF RecordType
    <3> DEFINE x == Start(t, j + 1)
    <3>5. x \in Nat /\ ~(x < u)
      BY <3>2, <3>3, <3>4
    <3> HIDE DEF x
    <3>6. u <= x
      BY <1>2, <3>5
    <3> QED
      BY <3>6 DEF x
  <2> QED
    BY <2>1, <2>2
<1> QED
  BY <1>2, <1>8, <1>9

LEMMA Between ==
  ASSUME NEW a \in Nat, NEW u \in Nat, NEW L \in Nat, NEW Top \in Nat, NEW M \in Nat,
         a < u, u <= a + L, a + L <= Top, Top <= M
  PROVE  /\ u - a \in 1..L /\ a + (u - a) = u /\ 1 \in 1..L
         /\ a + 1 \in 1..M /\ u - a \in Nat
OBVIOUS

(* The recover is one of a body, not below its END.                         *)
LEMMA Recovering ==
  ASSUME NEW t, Sane(t), NEW j \in 1..t.seqjmp, NEW u \in 1..t.usingstk, NEW a, a = t.seqjmpbuf[j].using,
         a < u, u <= Start(t, j + 1), t.usingstkbuf[u] # "END",
         NEW f, f = t.frames[t.seqjmpbuf[j].frame],
         NEW n, n = IF Place(t.usingstkbuf, a + 1) = "END" THEN 1 ELSE 0
  PROVE  /\ n = IF f.text.fin THEN 1 ELSE 0
         /\ u - a - n \in Nat /\ u - a - n > 0
         /\ f.text.fin => t.usingstkbuf[a + 1] = "END"
         /\ a + n <= Len(t.usingstkbuf)
<1> DEFINE l == SlotsOf(f)
           L == Len(l)
           b == Start(t, j + 1)
           k == u - a
           buf == t.usingstkbuf
<1>1. t \in Thread /\ Records(t) /\ t.usingstk \in Nat /\ buf \in Seq(Slot) /\ Len(buf) \in Nat /\ t.usingstk <= Len(buf)
  BY Typed DEF Sane, Records
<1>2. f \in FrameType /\ a \in Nat /\ b = a + L /\ b <= t.usingstk /\ Written(buf, a, l)
  BY RecordFacts
<1>3. l \in Seq(Slot) /\ L \in Nat
  BY <1>2, SlotsOfFrame
<1> HIDE DEF L, b
<1>4. k \in 1..L /\ a + k = u /\ 1 \in 1..L /\ a + 1 \in 1..Len(buf) /\ k \in Nat
  <2>1. u <= b /\ u \in Nat
    BY <1>1 DEF b
  <2> DEFINE M == Len(buf)
             Top == t.usingstk
  <2>2. a \in Nat /\ b = a + L /\ b <= Top /\ Top \in Nat /\ M \in Nat /\ Top <= M /\ a < u
    BY <1>1, <1>2
  <2> HIDE DEF M, Top
  <2>3. k \in 1..L /\ a + k = u /\ 1 \in 1..L /\ a + 1 \in 1..M /\ k \in Nat
    BY <1>3, <2>1, <2>2, Between
  <2> QED
    BY <2>3 DEF M
<1>5. l[k] = buf[u] /\ l[1] = buf[a + 1]
  BY <1>2, <1>4 DEF Written, L
<1>6. f.phase = "body"
  <2> SUFFICES ASSUME f.phase # "body" PROVE FALSE
    OBVIOUS
  <2>1. \A i \in 1..L : l[i] = "END"
    BY <1>2, SlotsOfFrame DEF L
  <2> QED
    BY <1>4, <1>5, <2>1
<1>7. f.text \in Text \cup {NoText} /\ l = Slots(f.text)
  BY <1>2, <1>6, SlotsOfFrame DEF FrameType
<1>8. l[1] = "END" <=> f.text.fin
  BY <1>4, <1>7, SlotsSound DEF L
<1>9. Place(buf, a + 1) = buf[a + 1]
  <2>1. DOMAIN buf = 1..Len(buf)
    BY <1>1
  <2> QED
    BY <1>4, <2>1 DEF Place
<1>10. n = IF f.text.fin THEN 1 ELSE 0
  BY <1>5, <1>8, <1>9
<1>11. f.text.fin => k # 1
  BY <1>5, <1>8
<1>12. k - n \in Nat /\ k - n > 0
  BY <1>4, <1>10, <1>11
<1>13. a + n <= Len(buf)
  BY <1>2, <1>4, <1>10
<1> QED
  BY <1>5, <1>8, <1>10, <1>12, <1>13

(* break.                                                                   *)
LEMMA BreakExact ==
  ASSUME NEW t, Sane(t), Settled(t), High(t), NEW exc \in Cell, NEW bbflag
  PROVE  Exact(break(t, exc, bbflag)) /\ Settled(break(t, exc, bbflag))
<1> DEFINE u == Search(t, exc, bbflag)
           j == Record(t, u)
           e == t.seqjmpbuf[j]
           finally == IF Place(t.usingstkbuf, e.using + 1) = "END" THEN 1 ELSE 0
           s == break(t, exc, bbflag)
<1>1. CASE u = 0
  <2>1. s = t
    BY <1>1 DEF break
  <2> QED
    BY <2>1 DEF Exact
<1>2. CASE u # 0
  <2>1. t \in Thread /\ t.seqjmp \in Nat /\ t.stack \in Seq(Cell)
    BY Typed DEF Sane
  <2>2. /\ u \in 1..t.usingstk /\ Compatible(t.usingstkbuf[u], exc) /\ j \in 1..t.seqjmp
        /\ e.using < u => u <= Start(t, j + 1)
    BY <1>2, Found
  <2>3. e \in RecordType /\ e.frame \in 1..Len(t.frames)
    BY <2>2, RecordFacts
  <2>4. e.using \in Nat /\ e.stack \in Nat /\ e.frame \in Nat /\ u \in Nat
    BY <2>2, <2>3 DEF RecordType
  <2>5. Height(t.stack, e.stack) \in Seq(Cell) /\ Len(Height(t.stack, e.stack)) = e.stack
    BY <2>1, <2>4, Heights
  <2>6. CASE e.using >= u
    <3> DEFINE l == longjmp(t, e, -1, exc)
               stack == Append(Height(t.stack, e.stack), exc)
               jmp == j - 1
               r == [l EXCEPT !.stack = stack, !.usingstk = e.using, !.seqjmp = jmp]
    <3>1. s = [l EXCEPT !.stack = Append(Height(l.stack, e.stack), exc), !.usingstk = e.using, !.seqjmp = j - 1]
      BY <1>2, <2>6 DEF break
    <3>2. l.stack = t.stack
      BY <2>1, Untouched
    <3>3. s = r
      BY <3>1, <3>2
    <3>4. stack \in Seq(Cell) /\ Len(stack) = e.stack + 1 /\ jmp \in Nat /\ -1 \in Int
      BY <2>1, <2>2, <2>5
    <3> HIDE DEF stack, jmp, e, u, j
    <3>5. Jumped(t, r, e, -1, exc, stack, e.using, jmp)
      BY <2>1, <2>3, <2>4, <3>4, Jumps
    <3>6. Goes(t.frames, e.frame - 1, -1)
      BY DEF Goes
    <3>7. Len(stack) = e.stack + (IF -1 \in {-1, -2} THEN 1 ELSE 0) /\ -1 \in {-1, -2, -3, -4}
      BY <3>4
    <3> HIDE DEF r, l, s
    <3>8. Exact(r) /\ Settled(r)
      BY <2>2, <3>4, <3>5, <3>6, <3>7, JumpLands DEF e, jmp
    <3> QED
      BY <3>3, <3>8 DEF s
  <2>7. CASE ~(e.using >= u)
    <3> DEFINE seq == u - e.using - finally
               l == longjmp(t, e, seq, exc)
               stack == Height(t.stack, e.stack)
               using == e.using + finally
               r == [l EXCEPT !.stack = stack, !.usingstk = using, !.seqjmp = j]
               f == t.frames[e.frame]
               g == Landing(f, seq, exc)
               m == e.frame
               p == j - 1
    <3>1. s = [l EXCEPT !.stack = Height(l.stack, e.stack), !.usingstk = using, !.seqjmp = j]
      BY <1>2, <2>7 DEF break
    <3>2. l.stack = t.stack
      BY <2>1, Untouched
    <3>3. s = r
      BY <3>1, <3>2
    <3>4. /\ finally = IF f.text.fin THEN 1 ELSE 0
          /\ seq \in Nat /\ seq > 0
          /\ f.text.fin => t.usingstkbuf[e.using + 1] = "END"
          /\ using <= Len(t.usingstkbuf)
      <4>1. e.using < u /\ u <= Start(t, j + 1)
        BY <2>2, <2>4, <2>7
      <4>2. t.usingstkbuf[u] # "END"
        BY <2>2 DEF Compatible
      <4> HIDE DEF u, j
      <4> QED
        BY <2>2, <4>1, <4>2, Recovering
    <3>5. finally \in Nat /\ using \in Nat /\ j \in Nat /\ seq \in Int
      BY <2>2, <2>4, <3>4
    <3> HIDE DEF e, u, j, stack, using, seq, finally
    <3>6. Jumped(t, r, e, seq, exc, stack, using, j)
      BY <2>1, <2>3, <2>5, <3>5, Jumps DEF stack
    <3> HIDE DEF r, l, s
    <3>7. /\ Replaced(t.frames, r.frames, m, g) /\ g \in FrameType /\ g.kind = f.kind
          /\ g.text = f.text /\ g.seq = seq /\ g.phase = "recover"
      <4>1. t.frames \in Seq(FrameType)
        BY <2>1, Typed
      <4>2. /\ Replaced(t.frames, Land(t.frames, m, seq, exc), m, g) /\ g \in FrameType /\ g.kind = f.kind
            /\ g.text = f.text /\ g.seq = seq /\ g.phase = "recover"
        <5> DEFINE fr == t.frames
        <5>1. fr \in Seq(FrameType) /\ m \in 1..Len(fr)
          BY <2>3, <4>1
        <5> HIDE DEF m, fr
        <5>2. Replaced(fr, Land(fr, m, seq, exc), m, Landing(fr[m], seq, exc))
          BY <3>5, <5>1, Lands
        <5> DEFINE x == fr[m]
        <5>3. x \in FrameType
          BY <5>1
        <5> HIDE DEF x
        <5>4. /\ Landing(x, seq, exc) \in FrameType
              /\ Landing(x, seq, exc).kind = x.kind /\ Landing(x, seq, exc).seq = seq
              /\ Landing(x, seq, exc).text = x.text
              /\ Landing(x, seq, exc).phase = "recover"
          BY <3>4, <3>5, <5>3 DEF Landing, FrameType
        <5> QED
          BY <5>2, <5>4 DEF x, fr, m
      <4> QED
        BY <3>6, <4>2 DEF Jumped
    <3>8. /\ m \in 2..Len(t.frames) /\ Alive(f) /\ e.stack = Cells(t.frames, m - 1)
          /\ e.trace = Calls(t.frames, m - 1) /\ Start(t, j) = e.using
          /\ \A n \in 1..t.seqjmp : t.seqjmpbuf[n].frame < m <=> n <= p
      BY <2>2, RecordFacts DEF e
    <3>9. /\ r \in Thread /\ r.stack = stack /\ r.usingstk = using /\ r.seqjmp = j /\ r.trace = e.trace
          /\ r.usingstkbuf = t.usingstkbuf /\ r.seqjmpbuf = t.seqjmpbuf
      BY <3>6 DEF Jumped
    <3>10. p \in 0..t.seqjmp /\ p <= j /\ p + 1 = j /\ j <= t.seqjmp
      BY <2>1, <2>2
    <3>11. Start(r, p + 1) = Start(t, p + 1)
      BY <3>8, <3>9, <3>10 DEF Start, e
    <3>12. Keeps(t, r, m, p)
      <4>1. m \in 1..(Len(t.frames) + 1) /\ m <= Len(r.frames) + 1 /\ Agree(t.frames, r.frames, m - 1)
        <5>1. Len(r.frames) = m /\ Agree(t.frames, r.frames, m - 1)
          BY <3>7 DEF Replaced
        <5>2. Len(t.frames) \in Nat
          BY <2>1, Typed
        <5> HIDE DEF m
        <5> QED
          BY <3>8, <5>1, <5>2
      <4> HIDE DEF m, p
      <4> QED
        BY <3>8, <3>9, <3>10, <3>11, <4>1 DEF Keeps
    <3>13. /\ r.usingstk = Start(t, p + 1) + Len(SlotsOf(g))
           /\ Written(r.usingstkbuf, Start(t, p + 1), SlotsOf(g))
      <4>1. /\ Len(SlotsOf(g)) = IF g.text.fin THEN 1 ELSE 0
            /\ \A k \in 1..Len(SlotsOf(g)) : SlotsOf(g)[k] = "END"
        BY <3>7, SlotsOfFrame
      <4>2. Len(SlotsOf(g)) = finally
        BY <3>4, <3>7, <4>1
      <4>3. r.usingstk = Start(t, p + 1) + Len(SlotsOf(g))
        BY <3>8, <3>9, <3>10, <4>2 DEF using
      <4>4. \A k \in 1..Len(SlotsOf(g)) : k = 1 /\ f.text.fin
        BY <3>7, <4>1
      <4>5. Written(r.usingstkbuf, Start(t, p + 1), SlotsOf(g))
        BY <3>4, <3>8, <3>9, <3>10, <4>1, <4>4 DEF Written
      <4> QED
        BY <4>3, <4>5
    <3>14. \A i \in 1..(m - 1) : t.frames[i].phase # "using"
      <4>1. Len(t.frames) \in Nat
        BY <2>1, Typed
      <4>2. \A i \in 1..(m - 1) : i \in 1..Len(t.frames)
        BY <3>8, <4>1
      <4> QED
        BY <4>2 DEF Settled
    <3>15. /\ r.seqjmp = p + 1 /\ r.seqjmp <= Len(r.seqjmpbuf) /\ r.seqjmpbuf[p + 1].frame = m
           /\ r.seqjmpbuf[p + 1].stack = Cells(t.frames, m - 1)
           /\ r.seqjmpbuf[p + 1].trace = Calls(t.frames, m - 1)
      <4>1. t.seqjmp <= Len(t.seqjmpbuf) /\ Len(t.seqjmpbuf) \in Nat
        BY <2>1, Typed DEF Sane, Records
      <4>2. r.seqjmp = p + 1 /\ r.seqjmpbuf[p + 1] = e
        BY <3>9, <3>10 DEF e
      <4>3. r.seqjmp <= Len(r.seqjmpbuf)
        BY <2>1, <3>5, <3>9, <3>10, <4>1
      <4> QED
        BY <3>8, <4>2, <4>3
    <3>16. /\ r.usingstk <= Len(r.usingstkbuf) /\ r.trace = Calls(t.frames, m - 1)
           /\ Len(r.stack) = Cells(t.frames, m - 1) + (IF g.phase = "body" THEN 1 ELSE 0)
      <4>1. r.usingstk <= Len(r.usingstkbuf)
        BY <3>4, <3>9
      <4>2. Len(r.stack) = e.stack
        BY <2>5, <3>9 DEF stack
      <4> QED
        BY <2>4, <3>7, <3>8, <3>9, <4>1, <4>2
    <3>17. g.kind = "sequence" /\ g.phase \in {"body", "recover"} /\ g.seq >= 0
      BY <3>4, <3>5, <3>7, <3>8 DEF Alive
    <3> HIDE DEF g, m, p, f
    <3>18. Exact(r)
      BY <3>7, <3>8, <3>9, <3>12, <3>13, <3>14, <3>15, <3>16, <3>17, Recorded
    <3>19. Settled(r)
      <4>1. r.frames[m] = g /\ Len(r.frames) = m
        BY <3>7 DEF Replaced
      <4>2. ~Prepared(r)
        BY <3>7, <4>1 DEF Prepared
      <4> QED
        BY <3>18, <4>2 DEF Exact
    <3> QED
      BY <3>3, <3>18, <3>19 DEF s
  <2> QED
    BY <2>6, <2>7
<1> QED
  BY <1>1, <1>2

-----------------------------------------------------------------------------
(* The actions.                                                             *)

LEMMA Here ==
  ASSUME NEW t, Exact(t)
  PROVE  LET h == t.frames[Len(t.frames)] IN
         /\ t \in Thread /\ Len(t.frames) \in Nat \ {0} /\ Len(t.frames) \in 1..Len(t.frames)
         /\ h \in FrameType /\ FrameSound(t.frames, Len(t.frames))
         /\ h.phase # "using" => Settled(t)
         /\ h.phase = "using" => Prepared(t)
<1>1. t \in Thread /\ Len(t.frames) \in Nat /\ Nested(t.frames)
  BY Typed DEF Exact, Sane
<1>2. Len(t.frames) \in 1..Len(t.frames)
  BY <1>1 DEF Nested
<1>3. t.frames[Len(t.frames)] \in FrameType /\ FrameSound(t.frames, Len(t.frames))
  BY <1>1, <1>2, Typed DEF Nested
<1>4. t.frames[Len(t.frames)].phase # "using" => Settled(t)
  BY DEF Exact, Prepared
<1>5. t.frames[Len(t.frames)].phase = "using" => Prepared(t)
  BY <1>2 DEF Exact, Settled
<1> QED
  BY <1>1, <1>2, <1>3, <1>4, <1>5

(* A new frame.                                                             *)
LEMMA Pushed ==
  ASSUME NEW t, Sane(t), High(t), NEW s \in Thread, NEW g \in FrameType, ~Alive(g),
         s.frames = Append(t.frames, g), s.usingstkbuf = t.usingstkbuf,
         s.seqjmp = t.seqjmp, s.usingstk = t.usingstk, s.seqjmp <= Len(s.seqjmpbuf),
         \A n \in 1..t.seqjmp : s.seqjmpbuf[n] = t.seqjmpbuf[n],
         g.phase # "finally", g.seq >= 0, g.kind # "sequence" => g.phase = "body",
         g.kind = "call" => g.at = Len(t.stack),
         s.trace = t.trace + (IF g.kind = "call" THEN 1 ELSE 0),
         Len(s.stack) = Len(t.stack) + (IF OnStack(g) THEN 1 ELSE 0)
  PROVE  Sane(s) /\ High(s) /\ (Settled(t) /\ g.phase # "using" => Settled(s))
<1> DEFINE m == Len(t.frames) + 1
           p == t.seqjmp
<1>1. t \in Thread /\ Nested(t.frames) /\ Records(t) /\ Len(t.frames) \in Nat /\ p \in Nat /\ Len(t.frames) >= 1
  BY Typed DEF Sane, Nested
<1>2. Replaced(t.frames, s.frames, m, g)
  <2>1. t.frames \in Seq(FrameType)
    BY <1>1, Typed
  <2>2. /\ Append(t.frames, g) \in Seq(FrameType) /\ Len(Append(t.frames, g)) = m
        /\ Append(t.frames, g)[m] = g
        /\ \A i \in 1..Len(t.frames) : Append(t.frames, g)[i] = t.frames[i]
    BY <2>1, Extend
  <2>3. m - 1 = Len(t.frames)
    BY <1>1
  <2> HIDE DEF m
  <2> QED
    BY <2>2, <2>3 DEF Replaced, Agree
<1>3. m \in 2..(Len(t.frames) + 1) /\ m - 1 = Len(t.frames) /\ m \in Nat \ {0}
  BY <1>1
<1>4. \A n \in 1..p : t.seqjmpbuf[n].frame < m
  <2> SUFFICES ASSUME NEW n \in 1..p PROVE t.seqjmpbuf[n].frame < m
    OBVIOUS
  <2> DEFINE x == t.seqjmpbuf[n].frame
  <2>1. x \in 1..Len(t.frames)
    BY RecordFacts
  <2> HIDE DEF x
  <2>2. x < m
    BY <1>1, <2>1
  <2> QED
    BY <2>2 DEF x
<1> HIDE DEF m
<1>5. Keeps(t, s, m, p)
  <2>1. m \in 1..(Len(t.frames) + 1) /\ m <= Len(s.frames) + 1 /\ Agree(t.frames, s.frames, m - 1)
    <3>1. Len(s.frames) = m /\ Agree(t.frames, s.frames, m - 1)
      BY <1>2 DEF Replaced
    <3> QED
      BY <1>1, <1>3, <3>1
  <2>2. p \in 0..t.seqjmp /\ p <= s.seqjmp /\ \A n \in 1..t.seqjmp : t.seqjmpbuf[n].frame < m <=> n <= p
    BY <1>1, <1>4
  <2>3. Start(s, p + 1) = Start(t, p + 1)
    BY <1>1 DEF Start
  <2> QED
    BY <2>1, <2>2, <2>3 DEF Keeps
<1>6. FrameSound(s.frames, m)
  <2>1. s.frames[m] = g
    BY <1>2 DEF Replaced
  <2>2. g.kind = "call" => g.at = Cells(s.frames, m - 1)
    <3>1. Cells(s.frames, m - 1) = Cells(t.frames, m - 1)
      BY <1>2, <1>3, CountTop
    <3> QED
      BY <1>3, <3>1 DEF High
  <2> QED
    BY <2>1, <2>2 DEF FrameSound
<1>7. /\ s.trace = Calls(t.frames, m - 1) + (IF g.kind = "call" THEN 1 ELSE 0)
      /\ Len(s.stack) = Cells(t.frames, m - 1) + (IF OnStack(g) THEN 1 ELSE 0)
  BY <1>3 DEF High, Sane
<1>8. s.usingstk <= Len(s.usingstkbuf) /\ s.seqjmp = p
  BY <1>1 DEF Records
<1> HIDE DEF p
<1>9. Sane(s) /\ High(s)
  BY <1>2, <1>3, <1>5, <1>6, <1>7, <1>8, Unrecorded
<1>10. ASSUME Settled(t), g.phase # "using" PROVE Settled(s)
  <2>1. s.frames[m] = g /\ Len(s.frames) = m /\ \A i \in 1..(m - 1) : s.frames[i] = t.frames[i]
    BY <1>2 DEF Replaced, Agree
  <2>2. \A i \in 1..Len(s.frames) : i = m \/ i \in 1..(m - 1)
    BY <1>3, <2>1
  <2>3. \A i \in 1..(m - 1) : i \in 1..Len(t.frames)
    BY <1>3
  <2> QED
    BY <1>10, <2>1, <2>2, <2>3 DEF Settled
<1> QED
  BY <1>9, <1>10

LEMMA FrameTyped ==
  ASSUME NEW kind \in {"call", "loop", "sequence"}, NEW text \in Text \cup {NoText}, NEW at \in Nat
  PROVE  /\ Frame(kind, text, at) \in FrameType
         /\ Frame(kind, text, at) = [kind |-> kind, text |-> text, phase |-> "body", seq |-> 0,
                                     exc |-> "NIL", at |-> at]
BY DEF Frame, FrameType, Cell

LEMMA CallStep ==
  ASSUME IInv, Disciplined, Call
  PROVE  IInv'
<1> DEFINE g == Frame("call", NoText, Len(th.stack))
           stack == Append(th.stack, "arg")
           s == [th EXCEPT !.frames = Append(th.frames, g), !.stack = stack, !.trace = th.trace + 1]
<1>1. th \in Thread /\ Sane(th) /\ High(th) /\ Settled(th)
  <2>1. ~use.calls
    BY DEF IInv, Disciplined
  <2>2. here.phase # "using"
    BY <2>1 DEF Call, Running, InExpression
  <2> QED
    BY <2>2, Here DEF IInv, Exact, here
<1>2. th' = s /\ use' = use
  BY DEF Call
<1>3. g \in FrameType /\ g.kind = "call" /\ g.phase = "body" /\ g.seq = 0 /\ g.at = Len(th.stack)
  <2>1. Len(th.stack) \in Nat /\ NoText \in Text \cup {NoText} /\ "call" \in {"call", "loop", "sequence"}
    BY <1>1, Typed
  <2>2. g \in FrameType
    BY <2>1, FrameTyped
  <2>3. g.kind = "call" /\ g.phase = "body" /\ g.seq = 0 /\ g.at = Len(th.stack)
    BY DEF Frame
  <2> QED
    BY <2>2, <2>3
<1>4. stack \in Seq(Cell) /\ Len(stack) = Len(th.stack) + 1
  <2>1. "arg" \in Cell /\ th.stack \in Seq(Cell)
    BY <1>1, Typed DEF Cell
  <2> QED
    BY <2>1, Extend
<1> HIDE DEF g, stack
<1>5. Append(th.frames, g) \in Seq(FrameType) /\ th.trace + 1 \in Nat
  <2>1. th.frames \in Seq(FrameType) /\ th.trace \in Nat
    BY <1>1, Typed
  <2> QED
    BY <1>3, <2>1, Extend
<1>6. /\ s \in Thread /\ s.frames = Append(th.frames, g) /\ s.stack = stack /\ s.trace = th.trace + 1
      /\ s.usingstkbuf = th.usingstkbuf /\ s.seqjmpbuf = th.seqjmpbuf
      /\ s.seqjmp = th.seqjmp /\ s.usingstk = th.usingstk
  BY <1>1, <1>4, <1>5 DEF Thread
<1>7. s.seqjmp <= Len(s.seqjmpbuf)
  BY <1>1, <1>6 DEF Sane, Records
<1>8. OnStack(g) /\ ~Alive(g)
  BY <1>3 DEF OnStack, Alive
<1>9. Sane(s) /\ High(s) /\ (Settled(th) /\ g.phase # "using" => Settled(s))
  <2> HIDE DEF s
  <2>1. s.trace = th.trace + (IF g.kind = "call" THEN 1 ELSE 0)
    BY <1>3, <1>6
  <2>2. Len(s.stack) = Len(th.stack) + (IF OnStack(g) THEN 1 ELSE 0)
    BY <1>4, <1>6, <1>8
  <2>3. g.phase # "finally" /\ g.seq >= 0 /\ (g.kind # "sequence" => g.phase = "body")
    BY <1>3
  <2> QED
    BY <1>1, <1>3, <1>6, <1>7, <1>8, <2>1, <2>2, <2>3, Pushed
<1> QED
  BY <1>1, <1>2, <1>3, <1>9 DEF IInv, Exact

LEMMA LoopStep ==
  ASSUME IInv, Loop
  PROVE  IInv'
<1> DEFINE g == Frame("loop", NoText, 0)
           s == [th EXCEPT !.frames = Append(th.frames, g)]
<1>1. th \in Thread /\ Sane(th) /\ High(th) /\ Settled(th)
  <2>1. here.phase # "using"
    BY DEF Loop, Running
  <2> QED
    BY <2>1, Here DEF IInv, Exact, here
<1>2. th' = s /\ use' = use
  BY DEF Loop
<1>3. g \in FrameType /\ g.kind = "loop" /\ g.phase = "body" /\ g.seq = 0
  <2>1. NoText \in Text \cup {NoText} /\ 0 \in Nat /\ "loop" \in {"call", "loop", "sequence"}
    OBVIOUS
  <2>2. g \in FrameType
    BY <2>1, FrameTyped
  <2>3. g.kind = "loop" /\ g.phase = "body" /\ g.seq = 0
    BY DEF Frame
  <2> QED
    BY <2>2, <2>3
<1> HIDE DEF g
<1>4. Append(th.frames, g) \in Seq(FrameType)
  <2>1. th.frames \in Seq(FrameType)
    BY <1>1, Typed
  <2> QED
    BY <1>3, <2>1, Extend
<1>5. /\ s \in Thread /\ s.frames = Append(th.frames, g) /\ s.stack = th.stack /\ s.trace = th.trace
      /\ s.usingstkbuf = th.usingstkbuf /\ s.seqjmpbuf = th.seqjmpbuf
      /\ s.seqjmp = th.seqjmp /\ s.usingstk = th.usingstk
  BY <1>1, <1>4 DEF Thread
<1>6. s.seqjmp <= Len(s.seqjmpbuf)
  BY <1>1, <1>5 DEF Sane, Records
<1>7. ~OnStack(g) /\ ~Alive(g)
  BY <1>3 DEF OnStack, Alive
<1>8. Sane(s) /\ High(s) /\ (Settled(th) /\ g.phase # "using" => Settled(s))
  <2> HIDE DEF s
  <2>1. th.trace \in Nat /\ Len(th.stack) \in Nat
    BY <1>1, Typed
  <2>2. s.trace = th.trace + (IF g.kind = "call" THEN 1 ELSE 0)
    BY <1>3, <1>5, <2>1
  <2>3. Len(s.stack) = Len(th.stack) + (IF OnStack(g) THEN 1 ELSE 0)
    BY <1>5, <1>7, <2>1
  <2>4. g.phase # "finally" /\ g.seq >= 0 /\ (g.kind # "sequence" => g.phase = "body") /\ g.kind # "call"
    BY <1>3
  <2> QED
    BY <1>1, <1>3, <1>5, <1>6, <1>7, <2>2, <2>3, <2>4, Pushed
<1> QED
  BY <1>1, <1>2, <1>3, <1>8 DEF IInv, Exact

LEMMA BeginStep ==
  ASSUME IInv, NEW text \in use.texts, Begin(text)
  PROVE  IInv'
<1> DEFINE b == Frame("sequence", text, 0)
           g == [b EXCEPT !.phase = "using"]
           e == [stack |-> Len(th.stack), trace |-> th.trace, using |-> th.usingstk, frame |-> 0]
           cut == SubSeq(th.seqjmpbuf, 1, th.seqjmp)
           buf == Append(cut, e)
           s == [th EXCEPT !.frames = Append(th.frames, g), !.seqjmpbuf = buf]
<1>1. th \in Thread /\ Sane(th) /\ High(th) /\ Settled(th)
  <2>1. here.phase # "using"
    BY DEF Begin, Running
  <2> QED
    BY <2>1, Here DEF IInv, Exact, here
<1>2. th' = s /\ use' = use
  BY DEF Begin
<1>3. text \in Text
  BY UsesAssumption DEF IInv
<1>4. g \in FrameType /\ g.kind = "sequence" /\ g.phase = "using" /\ g.seq = 0 /\ g.text = text
  <2>1. text \in Text \cup {NoText} /\ 0 \in Nat /\ "sequence" \in {"call", "loop", "sequence"}
    BY <1>3
  <2>2. b \in FrameType
    BY <2>1, FrameTyped
  <2>3. b.kind = "sequence" /\ b.seq = 0 /\ b.text = text
    BY DEF Frame
  <2> HIDE DEF b
  <2> QED
    BY <2>2, <2>3 DEF FrameType
<1>5. th.seqjmp \in Nat /\ th.seqjmp <= Len(th.seqjmpbuf) /\ th.trace \in Nat /\ Len(th.stack) \in Nat
      /\ th.seqjmpbuf \in Seq(RecordType) /\ Len(th.seqjmpbuf) \in Nat /\ th.usingstk \in Nat
      /\ th.frames \in Seq(FrameType) /\ Len(th.frames) \in Nat /\ Len(th.frames) >= 1
      /\ th.usingstk <= Len(th.usingstkbuf) /\ Len(th.usingstkbuf) \in Nat
  BY <1>1, Typed DEF Sane, Records, Nested
<1>6. e \in RecordType /\ e.stack = Len(th.stack) /\ e.trace = th.trace /\ e.using = th.usingstk
  BY <1>5 DEF RecordType
<1>7. /\ buf \in Seq(RecordType) /\ Len(buf) = th.seqjmp + 1 /\ buf[th.seqjmp + 1] = e
      /\ \A n \in 1..th.seqjmp : buf[n] = th.seqjmpbuf[n]
  <2>1. th.seqjmp \in 0..Len(th.seqjmpbuf)
    BY <1>5
  <2>2. cut \in Seq(RecordType) /\ Len(cut) = th.seqjmp /\ \A n \in 1..th.seqjmp : cut[n] = th.seqjmpbuf[n]
    BY <1>5, <2>1, Prefix
  <2> HIDE DEF cut, e
  <2>3. /\ Append(cut, e) \in Seq(RecordType) /\ Len(Append(cut, e)) = Len(cut) + 1
        /\ Append(cut, e)[Len(cut) + 1] = e
        /\ \A i \in 1..Len(cut) : Append(cut, e)[i] = cut[i]
    BY <1>6, <2>2, Extend
  <2> QED
    BY <2>2, <2>3
<1> HIDE DEF g, b, buf, e
<1>8. /\ Append(th.frames, g) \in Seq(FrameType) /\ Len(Append(th.frames, g)) = Len(th.frames) + 1
      /\ Append(th.frames, g)[Len(th.frames) + 1] = g
      /\ \A i \in 1..Len(th.frames) : Append(th.frames, g)[i] = th.frames[i]
  BY <1>4, <1>5, Extend
<1>9. /\ s \in Thread /\ s.frames = Append(th.frames, g) /\ s.stack = th.stack /\ s.trace = th.trace
      /\ s.usingstkbuf = th.usingstkbuf /\ s.seqjmpbuf = buf
      /\ s.seqjmp = th.seqjmp /\ s.usingstk = th.usingstk
  BY <1>1, <1>7, <1>8 DEF Thread
<1>10. s.seqjmp <= Len(s.seqjmpbuf)
  BY <1>5, <1>7, <1>9
<1>11. ~OnStack(g) /\ ~Alive(g)
  BY <1>4 DEF OnStack, Alive
<1> HIDE DEF s
<1>12. Sane(s) /\ High(s)
  <2>1. s.trace = th.trace + (IF g.kind = "call" THEN 1 ELSE 0)
    BY <1>4, <1>5, <1>9
  <2>2. Len(s.stack) = Len(th.stack) + (IF OnStack(g) THEN 1 ELSE 0)
    BY <1>5, <1>9, <1>11
  <2>3. g.phase # "finally" /\ g.seq >= 0 /\ (g.kind # "sequence" => g.phase = "body") /\ g.kind # "call"
    BY <1>4
  <2>4. \A n \in 1..th.seqjmp : s.seqjmpbuf[n] = th.seqjmpbuf[n]
    BY <1>7, <1>9
  <2> QED
    BY <1>1, <1>4, <1>9, <1>10, <1>11, <2>1, <2>2, <2>3, <2>4, Pushed
<1>13. Prepared(s)
  <2>1. Len(s.frames) = Len(th.frames) + 1 /\ s.frames[Len(s.frames)] = g
    BY <1>8, <1>9
  <2>2. \A i \in 1..(Len(s.frames) - 1) : s.frames[i].phase # "using"
    <3>1. \A i \in 1..(Len(s.frames) - 1) : i \in 1..Len(th.frames)
      BY <1>5, <2>1
    <3> QED
      BY <1>1, <1>8, <1>9, <3>1 DEF Settled
  <2>3. s.seqjmpbuf[s.seqjmp + 1] = e /\ s.seqjmp + 1 <= Len(s.seqjmpbuf)
    BY <1>5, <1>7, <1>9
  <2>4. g.seq <= Len(Slots(g.text)) /\ s.usingstk + g.seq <= Len(s.usingstkbuf)
    <3>1. Slots(text) \in Seq(Slot)
      BY <1>3, SlotsSound
    <3>2. Len(Slots(text)) \in Nat
      BY <3>1
    <3> QED
      BY <1>4, <1>5, <1>9, <3>2
  <2>5. \A k \in 1..g.seq : FALSE
    BY <1>4
  <2> QED
    BY <1>4, <1>6, <1>9, <2>1, <2>2, <2>3, <2>4, <2>5 DEF Prepared
<1> QED
  BY <1>2, <1>12, <1>13 DEF IInv, Exact

LEMMA Two ==
  ASSUME NEW m \in Nat, m >= 1, m # 1
  PROVE  m \in 2..m /\ m \in Nat \ {0}
OBVIOUS

(* A sequence that is about to begin.                                       *)
LEMMA PreparedFacts ==
  ASSUME NEW t, Sane(t), High(t), Prepared(t), NEW m, m = Len(t.frames)
  PROVE  /\ m \in 2..m /\ m \in Nat \ {0} /\ t.frames[m] \in FrameType /\ t.frames[m].seq \in Nat
         /\ t.trace = Calls(t.frames, m - 1) /\ Len(t.stack) = Cells(t.frames, m - 1)
         /\ \A n \in 1..t.seqjmp : t.seqjmpbuf[n].frame < m
<1> DEFINE f == t.frames[m]
<1>1. t \in Thread /\ Nested(t.frames) /\ m \in Nat /\ t.frames[1].kind = "call" /\ m >= 1
  BY Typed DEF Sane, Nested
<1>2. f.kind = "sequence" /\ f.phase = "using"
  BY DEF Prepared
<1>3. m # 1
  BY <1>1, <1>2
<1>4. m \in 1..m /\ f \in FrameType /\ FrameSound(t.frames, m)
  BY <1>1, Typed DEF Nested
<1>5. f.seq \in Nat
  BY <1>2, <1>4 DEF FrameSound, FrameType
<1>6. ~OnStack(f) /\ ~Alive(f)
  BY <1>2, <1>5 DEF OnStack, Alive
<1>7. Calls(t.frames, m) = Calls(t.frames, m - 1) /\ Cells(t.frames, m) = Cells(t.frames, m - 1)
  <2>1. m - 1 \in Nat /\ m - 1 <= m /\ \A i \in (m - 1)+1..m : i = m
    BY <1>1
  <2>2. \A i \in (m - 1)+1..m : ~OnStack(t.frames[i]) /\ t.frames[i].kind # "call"
    BY <1>2, <1>6, <2>1
  <2> QED
    BY <1>1, <2>1, <2>2, NoCells, NoCalls
<1>8. ASSUME NEW n \in 1..t.seqjmp PROVE t.seqjmpbuf[n].frame < m
  <2> DEFINE x == t.seqjmpbuf[n].frame
  <2>1. x \in 1..m /\ Alive(t.frames[x])
    BY RecordFacts
  <2>2. x # m
    BY <1>6, <2>1
  <2> HIDE DEF x
  <2>3. x < m
    BY <1>1, <2>1, <2>2
  <2> QED
    BY <2>3 DEF x
<1>9. m \in 2..m /\ m \in Nat \ {0}
  BY <1>1, <1>3, Two
<1>10. t.trace = Calls(t.frames, m - 1) /\ Len(t.stack) = Cells(t.frames, m - 1)
  BY <1>7 DEF Sane, High
<1> QED
  BY <1>4, <1>5, <1>8, <1>9, <1>10

LEMMA Above ==
  ASSUME NEW Top \in Nat, NEW B \in Nat, NEW c \in Nat
  PROVE  /\ Top <= B => \A k \in 1..Top : k \in 1..B /\ k # Top + (c + 1)
         /\ Top + c <= B => \A k \in 1..c : Top + k \in 1..B /\ Top + k # Top + (c + 1)
OBVIOUS

LEMMA UsingStep ==
  ASSUME IInv, Using
  PROVE  IInv'
<1> DEFINE m == Len(th.frames)
           f == th.frames[m]
           n == f.seq + 1
           v == Slots(f.text)[n]
           buf == Stored(th.usingstkbuf, th.usingstk + n, v)
           fr == [th.frames EXCEPT ![m].seq = n]
           g == [f EXCEPT !.seq = n]
           p == th.seqjmp
           s == [th EXCEPT !.usingstkbuf = buf, !.frames = fr]
<1>1. f.phase = "using" /\ n <= Len(Slots(f.text)) /\ th' = s /\ use' = use
  BY DEF Using, here
<1>2. th \in Thread /\ Sane(th) /\ High(th) /\ Prepared(th) /\ Records(th) /\ Nested(th.frames)
  BY <1>1, Here DEF IInv, Exact, here, Sane
<1>3. /\ m \in 2..m /\ m \in Nat \ {0} /\ f \in FrameType /\ f.seq \in Nat
      /\ th.trace = Calls(th.frames, m - 1) /\ Len(th.stack) = Cells(th.frames, m - 1)
      /\ \A k \in 1..th.seqjmp : th.seqjmpbuf[k].frame < m
  BY <1>2, PreparedFacts
<1>4. /\ f.kind = "sequence" /\ \A i \in 1..(m - 1) : th.frames[i].phase # "using"
      /\ p + 1 <= Len(th.seqjmpbuf)
      /\ th.seqjmpbuf[p + 1].stack = Len(th.stack) /\ th.seqjmpbuf[p + 1].trace = th.trace
      /\ th.seqjmpbuf[p + 1].using = th.usingstk
      /\ th.usingstk + f.seq <= Len(th.usingstkbuf)
      /\ \A k \in 1..f.seq : th.usingstkbuf[th.usingstk + k] = Slots(f.text)[k]
  BY <1>2 DEF Prepared
<1>5. th.usingstkbuf \in Seq(Slot) /\ Len(th.usingstkbuf) \in Nat /\ th.usingstk \in Nat /\ p \in Nat
      /\ th.frames \in Seq(FrameType) /\ Len(th.seqjmpbuf) \in Nat
  BY <1>2, Typed
<1>6. Slots(f.text) \in Seq(Slot) /\ Len(Slots(f.text)) \in Nat
  <2>1. f.text \in Text \cup {NoText}
    BY <1>3 DEF FrameType
  <2>2. Slots(f.text) \in Seq(Slot)
    BY <2>1, SlotsSound
  <2> QED
    BY <2>2
<1>7. v \in Slot /\ n \in Nat \ {0}
  <2>1. n \in 1..Len(Slots(f.text))
    BY <1>1, <1>3, <1>6
  <2> QED
    BY <1>3, <1>6, <2>1
<1>8. g \in FrameType /\ g.kind = "sequence" /\ g.phase = "using" /\ g.seq = n /\ g.text = f.text
  BY <1>1, <1>3, <1>4, <1>7 DEF FrameType
<1>9. fr \in Seq(FrameType) /\ Len(fr) = m /\ fr[m] = g /\ \A i \in 1..(m - 1) : fr[i] = th.frames[i]
  <2>1. fr = [th.frames EXCEPT ![m] = g] /\ m \in 1..m
    BY <1>3
  <2> HIDE DEF g, fr
  <2> QED
    BY <1>5, <1>8, <2>1
<1> HIDE DEF g, fr
<1>10. /\ buf \in Seq(Slot) /\ Len(buf) >= th.usingstk + n /\ Len(buf) >= Len(th.usingstkbuf)
       /\ buf[th.usingstk + n] = v
       /\ \A k \in 1..Len(th.usingstkbuf) : k # th.usingstk + n => buf[k] = th.usingstkbuf[k]
  <2>1. th.usingstk + n \in Nat \ {0}
    BY <1>5, <1>7
  <2> HIDE DEF n, v
  <2> QED
    BY <1>5, <1>7, <2>1, Storing
<1> HIDE DEF buf
<1>11. /\ s \in Thread /\ s.frames = fr /\ s.stack = th.stack /\ s.trace = th.trace
       /\ s.usingstkbuf = buf /\ s.seqjmpbuf = th.seqjmpbuf
       /\ s.seqjmp = th.seqjmp /\ s.usingstk = th.usingstk
  BY <1>2, <1>9, <1>10 DEF Thread
<1>12. th.usingstk <= Len(th.usingstkbuf) /\ Len(buf) \in Nat
  BY <1>2, <1>10 DEF Records
<1>13. \A k \in 1..th.usingstk : buf[k] = th.usingstkbuf[k]
  <2>1. \A k \in 1..th.usingstk : k \in 1..Len(th.usingstkbuf) /\ k # th.usingstk + n
    BY <1>3, <1>5, <1>12, Above
  <2> QED
    BY <1>10, <2>1
<1> HIDE DEF s
<1>14. Replaced(th.frames, s.frames, m, g)
  BY <1>9, <1>11 DEF Replaced, Agree
<1>15. Keeps(th, s, m, p)
  <2>1. m \in 1..(Len(th.frames) + 1) /\ m <= Len(s.frames) + 1 /\ Agree(th.frames, s.frames, m - 1)
    BY <1>3, <1>9, <1>11 DEF Agree
  <2>2. p \in 0..th.seqjmp /\ p <= s.seqjmp /\ \A k \in 1..th.seqjmp : th.seqjmpbuf[k].frame < m <=> k <= p
    BY <1>3, <1>5, <1>11
  <2>3. Start(s, p + 1) = Start(th, p + 1) /\ Start(th, p + 1) = th.usingstk
    BY <1>5, <1>11 DEF Start
  <2> HIDE DEF m, p
  <2> QED
    BY <1>11, <1>13, <2>1, <2>2, <2>3 DEF Keeps
<1>16. Sane(s) /\ High(s)
  <2>1. FrameSound(s.frames, m)
    <3>1. s.frames[m].seq \in Nat /\ s.frames[m].phase = "using" /\ s.frames[m].kind = "sequence"
      BY <1>7, <1>8, <1>9, <1>11
    <3> QED
      BY <3>1 DEF FrameSound
  <2>2. ~Alive(g) /\ ~OnStack(g)
    BY <1>7, <1>8 DEF Alive, OnStack
  <2>3. Calls(th.frames, m - 1) \in Nat /\ Cells(th.frames, m - 1) \in Nat
    <3>1. m - 1 \in Nat
      BY <1>3
    <3> QED
      BY <3>1, CountFrames
  <2>4. /\ s.trace = Calls(th.frames, m - 1) + (IF g.kind = "call" THEN 1 ELSE 0)
        /\ Len(s.stack) = Cells(th.frames, m - 1) + (IF OnStack(g) THEN 1 ELSE 0)
    BY <1>3, <1>8, <1>11, <2>2, <2>3
  <2>5. s.seqjmp <= Len(s.seqjmpbuf) /\ s.usingstk <= Len(s.usingstkbuf) /\ s.seqjmp = p
    BY <1>4, <1>5, <1>10, <1>11, <1>12
  <2>6. m \in 2..(Len(th.frames) + 1)
    BY <1>3
  <2> HIDE DEF m, p
  <2> QED
    BY <1>2, <1>11, <1>14, <1>15, <2>1, <2>2, <2>4, <2>5, <2>6, Unrecorded
<1>17. Prepared(s)
  <2>1. Len(s.frames) = m /\ s.frames[Len(s.frames)] = g
    BY <1>9, <1>11
  <2>2. \A i \in 1..(Len(s.frames) - 1) : s.frames[i].phase # "using"
    BY <1>4, <1>9, <1>11, <2>1
  <2>3. g.seq <= Len(Slots(g.text)) /\ s.usingstk + g.seq <= Len(s.usingstkbuf)
    BY <1>1, <1>8, <1>10, <1>11
  <2>4. \A k \in 1..g.seq : s.usingstkbuf[s.usingstk + k] = Slots(g.text)[k]
    <3> SUFFICES ASSUME NEW k \in 1..n PROVE buf[th.usingstk + k] = Slots(f.text)[k]
      BY <1>8, <1>11
    <3>1. CASE k = n
      BY <1>10, <3>1
    <3>2. CASE k # n
      <4>1. k \in 1..f.seq
        BY <1>3, <3>2
      <4>2. th.usingstk + k \in 1..Len(th.usingstkbuf) /\ th.usingstk + k # th.usingstk + n
        <5> DEFINE c == f.seq
                   Top == th.usingstk
                   B == Len(th.usingstkbuf)
        <5>1. Top \in Nat /\ B \in Nat /\ c \in Nat /\ Top + c <= B
          BY <1>3, <1>4, <1>5
        <5> HIDE DEF c, Top, B
        <5>2. \A i \in 1..c : Top + i \in 1..B /\ Top + i # Top + (c + 1)
          BY <5>1, Above
        <5> QED
          BY <4>1, <5>2 DEF c, Top, B
      <4> QED
        BY <1>4, <1>10, <4>1, <4>2
    <3> QED
      BY <3>1, <3>2
  <2> QED
    BY <1>4, <1>8, <1>11, <2>1, <2>2, <2>3, <2>4 DEF Prepared
<1> QED
  BY <1>1, <1>16, <1>17 DEF IInv, Exact

LEMMA EnterFrame ==
  ASSUME NEW f \in FrameType
  PROVE  /\ [f EXCEPT !.phase = "body", !.seq = 0] \in FrameType
         /\ [f EXCEPT !.phase = "body", !.seq = 0].kind = f.kind
         /\ [f EXCEPT !.phase = "body", !.seq = 0].text = f.text
         /\ [f EXCEPT !.phase = "body", !.seq = 0].phase = "body"
         /\ [f EXCEPT !.phase = "body", !.seq = 0].seq = 0
<1> DEFINE g == [f EXCEPT !.phase = "body"]
<1>1. g \in FrameType
  BY DEF FrameType
<1> HIDE DEF g
<1>2. [g EXCEPT !.seq = 0] \in FrameType
  BY <1>1 DEF FrameType
<1>3. [f EXCEPT !.phase = "body", !.seq = 0] = [g EXCEPT !.seq = 0]
  BY DEF g
<1>4. [f EXCEPT !.phase = "body", !.seq = 0].kind = f.kind
  BY DEF FrameType
<1>5. [f EXCEPT !.phase = "body", !.seq = 0].text = f.text
  BY DEF FrameType
<1>6. [f EXCEPT !.phase = "body", !.seq = 0].phase = "body"
  BY DEF FrameType
<1>7. [f EXCEPT !.phase = "body", !.seq = 0].seq = 0
  BY DEF FrameType
<1> QED
  BY <1>2, <1>3, <1>4, <1>5, <1>6, <1>7

LEMMA EnterStep ==
  ASSUME IInv, Enter
  PROVE  IInv'
<1> DEFINE m == Len(th.frames)
           f == th.frames[m]
           l == Slots(f.text)
           p == th.seqjmp
           e == th.seqjmpbuf[p + 1]
           fr == [th.frames EXCEPT ![m].phase = "body", ![m].seq = 0]
           g == [f EXCEPT !.phase = "body", !.seq = 0]
           buf == [th.seqjmpbuf EXCEPT ![p + 1].frame = m]
           d == [e EXCEPT !.frame = m]
           stack == Append(th.stack, f.text.block)
           s == [th EXCEPT !.frames = fr, !.usingstk = th.usingstk + f.seq, !.seqjmp = p + 1,
                           !.seqjmpbuf = buf, !.stack = stack]
<1>1. f.phase = "using" /\ f.seq = Len(l) /\ use' = use
  BY DEF Enter, here
<1>2. th \in Thread /\ Sane(th) /\ High(th) /\ Prepared(th) /\ Records(th)
  BY <1>1, Here DEF IInv, Exact, here, Sane
<1>3. /\ m \in 2..m /\ m \in Nat \ {0} /\ f \in FrameType /\ f.seq \in Nat
      /\ th.trace = Calls(th.frames, m - 1) /\ Len(th.stack) = Cells(th.frames, m - 1)
      /\ \A k \in 1..th.seqjmp : th.seqjmpbuf[k].frame < m
  BY <1>2, PreparedFacts
<1>4. /\ f.kind = "sequence" /\ \A i \in 1..(m - 1) : th.frames[i].phase # "using"
      /\ p + 1 <= Len(th.seqjmpbuf)
      /\ e.stack = Len(th.stack) /\ e.trace = th.trace /\ e.using = th.usingstk
      /\ th.usingstk + f.seq <= Len(th.usingstkbuf)
      /\ \A k \in 1..f.seq : th.usingstkbuf[th.usingstk + k] = l[k]
  BY <1>2 DEF Prepared
<1>5. th.usingstk \in Nat /\ p \in Nat /\ th.frames \in Seq(FrameType)
      /\ th.seqjmpbuf \in Seq(RecordType) /\ Len(th.seqjmpbuf) \in Nat /\ th.stack \in Seq(Cell)
      /\ Len(th.stack) \in Nat
  BY <1>2, Typed
<1>6. f.text.block \in Cell
  <2>1. f.text \in TextType
    BY <1>3, Texts DEF FrameType
  <2> QED
    BY <2>1 DEF TextType, Cell
<1>7. stack \in Seq(Cell) /\ Len(stack) = Len(th.stack) + 1
  BY <1>5, <1>6, Extend
<1>8. g \in FrameType /\ g.kind = "sequence" /\ g.phase = "body" /\ g.seq = 0 /\ g.text = f.text
  <2> HIDE DEF f
  <2> QED
    BY <1>3, <1>4, EnterFrame
<1>9. fr \in Seq(FrameType) /\ Len(fr) = m /\ fr[m] = g /\ \A i \in 1..(m - 1) : fr[i] = th.frames[i]
  <2>1. m \in 1..m /\ m \in DOMAIN th.frames
    BY <1>3, <1>5
  <2>2. fr = [th.frames EXCEPT ![m] = g]
    BY <2>1
  <2> HIDE DEF g, fr
  <2> QED
    BY <1>5, <1>8, <2>1, <2>2
<1>10. e \in RecordType /\ d \in RecordType /\ d.frame = m
       /\ d.stack = e.stack /\ d.trace = e.trace /\ d.using = e.using
  <2>1. p + 1 \in 1..Len(th.seqjmpbuf)
    BY <1>4, <1>5
  <2>2. e \in RecordType
    BY <1>5, <2>1
  <2> HIDE DEF e
  <2> QED
    BY <1>3, <2>2 DEF RecordType
<1>11. /\ buf \in Seq(RecordType) /\ Len(buf) = Len(th.seqjmpbuf) /\ buf[p + 1] = d
       /\ \A n \in 1..p : buf[n] = th.seqjmpbuf[n]
  <2> DEFINE q == p + 1
  <2>1. q \in 1..Len(th.seqjmpbuf) /\ \A n \in 1..p : n # q
    BY <1>4, <1>5
  <2>2. buf = [th.seqjmpbuf EXCEPT ![q] = d]
    BY <1>5, <2>1
  <2> HIDE DEF d, buf, q
  <2>3. buf \in Seq(RecordType) /\ Len(buf) = Len(th.seqjmpbuf) /\ buf[q] = d
    BY <1>5, <1>10, <2>1, <2>2
  <2>4. \A n \in 1..p : buf[n] = th.seqjmpbuf[n]
    <3>1. \A n \in 1..p : n \in 1..Len(th.seqjmpbuf)
      BY <1>4, <1>5
    <3> QED
      BY <1>5, <2>1, <2>2, <3>1
  <2> QED
    BY <2>3, <2>4 DEF q
<1> HIDE DEF g, fr, d, buf, stack
<1>12. /\ s \in Thread /\ s.frames = fr /\ s.stack = stack /\ s.trace = th.trace
       /\ s.usingstkbuf = th.usingstkbuf /\ s.seqjmpbuf = buf
       /\ s.seqjmp = p + 1 /\ s.usingstk = th.usingstk + f.seq
  <2>1. th.usingstk + f.seq \in Nat /\ p + 1 \in Nat
    BY <1>3, <1>5
  <2> HIDE DEF p, f
  <2> QED
    BY <1>2, <1>7, <1>9, <1>11, <2>1 DEF Thread
<1>0. th' = s
  <2>1. th' = [th EXCEPT !.frames[m].phase = "body", !.frames[m].seq = 0,
                         !.usingstk = th.usingstk + f.seq, !.seqjmp = th.seqjmp + 1,
                         !.seqjmpbuf[th.seqjmp + 1].frame = m,
                         !.stack = Append(th.stack, f.text.block)]
    BY DEF Enter, here
  <2>2. fr = [th.frames EXCEPT ![m].phase = "body", ![m].seq = 0]
    BY DEF fr
  <2>3. buf = [th.seqjmpbuf EXCEPT ![p + 1].frame = m]
    BY DEF buf
  <2> DEFINE u == th.usingstk + f.seq
             r == [th EXCEPT !.frames[m].phase = "body", !.frames[m].seq = 0, !.usingstk = u,
                             !.seqjmp = p + 1, !.seqjmpbuf[p + 1].frame = m, !.stack = stack]
  <2>4. th' = r
    BY <2>1 DEF stack
  <2> HIDE DEF m, u, stack
  <2>5. DOMAIN th = {"frames", "stack", "trace", "usingstkbuf", "usingstk", "seqjmpbuf", "seqjmp"}
    BY <1>2 DEF Thread
  <2>6. r.frames = fr
    BY <1>2, <2>2 DEF Thread
  <2>7. r.seqjmpbuf = buf
    BY <1>2, <2>3 DEF Thread
  <2>8. r.usingstk = u /\ r.seqjmp = p + 1 /\ r.stack = stack
    BY <1>2 DEF Thread
  <2>9. r.trace = th.trace /\ r.usingstkbuf = th.usingstkbuf
    BY <1>2 DEF Thread
  <2>10. r = [y \in DOMAIN th |-> r[y]]
    OBVIOUS
  <2>11. s.frames = fr /\ s.seqjmpbuf = buf
    BY <1>2 DEF Thread
  <2>12. s.usingstk = u /\ s.seqjmp = p + 1 /\ s.stack = stack
    BY <1>2 DEF Thread, u
  <2>13. s.trace = th.trace /\ s.usingstkbuf = th.usingstkbuf
    BY <1>2 DEF Thread
  <2>14. s = [y \in DOMAIN th |-> s[y]]
    OBVIOUS
  <2> HIDE DEF r, s
  <2> QED
    BY <2>4, <2>5, <2>6, <2>7, <2>8, <2>9, <2>10, <2>11, <2>12, <2>13, <2>14
<1> HIDE DEF s
<1>13. Replaced(th.frames, s.frames, m, g)
  BY <1>9, <1>12 DEF Replaced, Agree
<1>14. Start(th, p + 1) = th.usingstk
  BY <1>5 DEF Start
<1>15. Keeps(th, s, m, p)
  <2>1. m \in 1..(Len(th.frames) + 1) /\ m <= Len(s.frames) + 1 /\ Agree(th.frames, s.frames, m - 1)
    BY <1>3, <1>9, <1>12 DEF Agree
  <2>2. p \in 0..th.seqjmp /\ p <= s.seqjmp /\ \A k \in 1..th.seqjmp : th.seqjmpbuf[k].frame < m <=> k <= p
    BY <1>3, <1>5, <1>12
  <2>3. Start(s, p + 1) = th.usingstk
    <3>1. ~(p + 1 > s.seqjmp) /\ s.seqjmpbuf[p + 1] = d
      BY <1>5, <1>11, <1>12
    <3> QED
      BY <1>4, <1>10, <3>1 DEF Start
  <2> HIDE DEF m, p
  <2> QED
    BY <1>11, <1>12, <1>14, <2>1, <2>2, <2>3 DEF Keeps
<1>16. SlotsOf(g) = l
  BY <1>8 DEF SlotsOf
<1>17. Exact(s)
  <2>1. s.usingstk = Start(th, p + 1) + Len(SlotsOf(g)) /\ s.usingstk <= Len(s.usingstkbuf)
    BY <1>1, <1>4, <1>12, <1>14, <1>16
  <2>2. Written(s.usingstkbuf, Start(th, p + 1), SlotsOf(g))
    BY <1>1, <1>4, <1>12, <1>14, <1>16 DEF Written
  <2>3. /\ s.seqjmp = p + 1 /\ s.seqjmp <= Len(s.seqjmpbuf) /\ s.seqjmpbuf[p + 1].frame = m
        /\ s.seqjmpbuf[p + 1].stack = Cells(th.frames, m - 1)
        /\ s.seqjmpbuf[p + 1].trace = Calls(th.frames, m - 1)
    BY <1>3, <1>4, <1>10, <1>11, <1>12
  <2>4. Len(s.stack) = Cells(th.frames, m - 1) + (IF g.phase = "body" THEN 1 ELSE 0)
    BY <1>3, <1>7, <1>8, <1>12
  <2>5. g.kind = "sequence" /\ g.phase \in {"body", "recover"} /\ g.seq >= 0
    BY <1>8
  <2>6. m \in 2..Len(th.frames) /\ s.trace = Calls(th.frames, m - 1)
    BY <1>3, <1>12
  <2> HIDE DEF m, p
  <2> QED
    BY <1>2, <1>4, <1>8, <1>12, <1>13, <1>15, <2>1, <2>2, <2>3, <2>4, <2>5, <2>6, Recorded
<1> QED
  BY <1>0, <1>1, <1>17 DEF IInv

LEMMA BreakStep ==
  ASSUME IInv, NEW exc \in use.excs, Break(exc)
  PROVE  IInv'
<1>1. Sane(th) /\ High(th) /\ Settled(th)
  <2>1. here.phase # "using"
    BY DEF Break, Running
  <2> QED
    BY <2>1, Here DEF IInv, Exact, here
<1>2. exc \in Cell
  BY UsesAssumption DEF IInv, Cell
<1>3. th' = break(th, exc, TRUE) /\ use' = use
  BY DEF Break
<1> QED
  BY <1>1, <1>2, <1>3, BreakExact DEF IInv

LEMMA ReturnStep ==
  ASSUME IInv, Return
  PROVE  IInv'
<1>1. Sane(th) /\ Settled(th) /\ th \in Thread /\ Len(th.frames) \in Nat
  <2>1. here.phase # "using"
    BY DEF Return, Running
  <2> QED
    BY <2>1, Here DEF IInv, Exact, here
<1>2. Returns(th.frames, Len(th.frames))
  <2> DEFINE n == Innermost(th, "call")
             N == Len(th.frames)
  <2>1. n \in 0..N /\ n > 1 /\ th.frames[n].kind = "call"
    <3>1. n \in 0..N /\ (n > 0 => th.frames[n].kind = "call")
      BY <1>1, InnermostIs
    <3>2. n > 1
      BY DEF Return
    <3> HIDE DEF n, N
    <3> QED
      BY <1>1, <3>1, <3>2
  <2> HIDE DEF n, N
  <2>2. n \in 2..N
    BY <1>1, <2>1
  <2> QED
    BY <2>1, <2>2 DEF Returns, N
<1>3. th' = return(th) /\ use' = use
  BY DEF Return
<1> QED
  BY <1>1, <1>2, <1>3, ReturnExact DEF IInv

LEMMA JumpStep ==
  ASSUME IInv, Disciplined, Jump
  PROVE  IInv'
<1>1. Sane(th) /\ High(th) /\ Settled(th) /\ th \in Thread /\ Len(th.frames) \in Nat
  <2>1. here.phase # "using"
    BY DEF Jump, Running
  <2> QED
    BY <2>1, Here DEF IInv, Exact, here
<1>2. Loops(th.frames, Len(th.frames))
  <2> DEFINE n == Innermost(th, "loop")
             c == Innermost(th, "call")
             N == Len(th.frames)
             x == Max({n, c})
  <2>1. n \in 0..N /\ (n > 0 => th.frames[n].kind = "loop")
        /\ \A i \in 1..N : th.frames[i].kind = "loop" => i <= n
    BY <1>1, InnermostIs
  <2>2. c \in 0..N /\ \A i \in 1..N : th.frames[i].kind = "call" => i <= c
    BY <1>1, InnermostIs
  <2>3. n > c
    BY DEF Jump, InLoop
  <2>4. ~use.leaks
    BY DEF IInv, Disciplined
  <2>5. \A i \in x+1..N : th.frames[i].phase = "finally" => th.frames[i].seq \notin {-1, -2}
    BY <2>4 DEF Jump, Clean
  <2> HIDE DEF n, c, N
  <2>6. x \in {n, c} /\ n <= x
    <3>1. {n, c} \in SUBSET (0..N) /\ {n, c} # {}
      BY <2>1, <2>2
    <3> QED
      BY <1>1, <3>1, MaxOf DEF N
  <2> HIDE DEF x
  <2>7. x = n /\ n \in 1..N
    BY <1>1, <2>1, <2>2, <2>3, <2>6 DEF N
  <2>8. ASSUME NEW i \in n+1..N PROVE th.frames[i].kind = "sequence" /\ ~Pending(th.frames[i])
    <3>1. i \in 1..N /\ ~(i <= n) /\ ~(i <= c)
      BY <1>1, <2>2, <2>3, <2>7 DEF N
    <3>2. th.frames[i] \in FrameType
      BY <1>1, <3>1, Typed DEF N
    <3>3. th.frames[i].kind = "sequence"
      BY <2>1, <2>2, <3>1, <3>2 DEF FrameType
    <3>4. ~Pending(th.frames[i])
      BY <2>5, <2>7 DEF Pending
    <3> QED
      BY <3>3, <3>4
  <2>9. th.frames[n].kind = "loop"
    BY <2>1, <2>7
  <2> QED
    BY <2>7, <2>8, <2>9 DEF Loops, N
<1>3. th' \in {loop(th), exit(th)} /\ use' = use
  BY DEF Jump
<1> QED
  BY <1>1, <1>2, <1>3, JumpExact DEF IInv

(* The innermost frame goes.                                                *)
LEMMA TopDropped ==
  ASSUME NEW t, Sane(t), Settled(t), NEW m, m = Len(t.frames), NEW s,
         s = [t EXCEPT !.frames = Front(t.frames)],
         t.frames[m].kind # "call", ~Alive(t.frames[m])
  PROVE  /\ s \in Thread /\ s.stack = t.stack /\ m \in 2..m
         /\ s.frames = Front(t.frames) /\ Len(s.frames) = m - 1 /\ Agree(t.frames, s.frames, m - 1)
         /\ Sane(s) /\ Settled(s)
         /\ Len(s.stack) = Cells(t.frames, m - 1) => High(s)
<1>1. t \in Thread /\ Nested(t.frames) /\ m \in Nat /\ m >= 1 /\ t.frames \in Seq(FrameType)
      /\ t.trace = Calls(t.frames, m)
  BY Typed DEF Sane, Nested
<1>2. m # 1
  BY <1>1 DEF Nested
<1>3. m \in 2..m /\ m \in Nat \ {0}
  BY <1>1, <1>2, Two
<1>4. /\ Front(t.frames) \in Seq(FrameType) /\ Len(Front(t.frames)) = m - 1
      /\ \A i \in 1..(m - 1) : Front(t.frames)[i] = t.frames[i]
  BY <1>1, Cutting
<1>5. /\ s \in Thread /\ s.frames = Front(t.frames) /\ s.stack = t.stack /\ s.trace = t.trace
      /\ s.usingstkbuf = t.usingstkbuf /\ s.seqjmpbuf = t.seqjmpbuf
      /\ s.seqjmp = t.seqjmp /\ s.usingstk = t.usingstk
  BY <1>1, <1>4 DEF Thread
<1>6. Calls(t.frames, m) = Calls(t.frames, m - 1)
  <2>1. m - 1 \in Nat /\ m - 1 <= m /\ \A i \in (m - 1)+1..m : i = m
    BY <1>3
  <2>2. \A i \in (m - 1)+1..m : t.frames[i].kind # "call"
    BY <2>1
  <2> QED
    BY <1>1, <2>1, <2>2, NoCalls
<1>7. Agree(t.frames, s.frames, m - 1)
  BY <1>4, <1>5 DEF Agree
<1>8. \A i \in m..Len(t.frames) : ~Alive(t.frames[i])
  <2>1. \A i \in m..m : i = m
    BY <1>1
  <2> QED
    BY <2>1
<1>9. \A i \in 1..(m - 1) : t.frames[i].phase # "using"
  <2>1. \A i \in 1..(m - 1) : i \in 1..Len(t.frames)
    BY <1>1
  <2> QED
    BY <2>1 DEF Settled
<1>10. m \in 2..(Len(t.frames) + 1)
  BY <1>1, <1>3
<1>11. s.trace = Calls(t.frames, m - 1)
  BY <1>1, <1>5, <1>6
<1>12. Sane(s) /\ Settled(s) /\ (Len(s.stack) = Cells(t.frames, m - 1) => High(s))
  <2>1. s.frames \in Seq(FrameType) /\ Len(s.frames) = m - 1
    BY <1>4, <1>5
  <2>2. s \in Thread /\ s.seqjmpbuf = t.seqjmpbuf /\ s.usingstkbuf = t.usingstkbuf
        /\ s.seqjmp = t.seqjmp /\ s.usingstk = t.usingstk
    BY <1>5
  <2> QED
    BY ONLY Sane(t), <1>7, <1>8, <1>9, <1>10, <1>11, <2>1, <2>2, Dropped
<1> QED
  BY <1>3, <1>4, <1>5, <1>7, <1>12

LEMMA TopCells ==
  ASSUME NEW t, Sane(t), NEW m \in 2..Len(t.frames), m = Len(t.frames)
  PROVE  /\ Cells(t.frames, m) = Cells(t.frames, m - 1) + (IF OnStack(t.frames[m]) THEN 1 ELSE 0)
         /\ Calls(t.frames, m) = Calls(t.frames, m - 1) + (IF t.frames[m].kind = "call" THEN 1 ELSE 0)
         /\ Cells(t.frames, m - 1) \in Nat /\ Calls(t.frames, m - 1) \in Nat
<1> DEFINE k == m - 1
<1>1. Len(t.frames) \in Nat
  BY Typed DEF Sane
<1>2. k \in Nat /\ k + 1 = m
  BY <1>1
<1> HIDE DEF k
<1>3. /\ Cells(t.frames, k + 1) = Cells(t.frames, k) + (IF OnStack(t.frames[k + 1]) THEN 1 ELSE 0)
      /\ Calls(t.frames, k + 1) = Calls(t.frames, k) + (IF t.frames[k + 1].kind = "call" THEN 1 ELSE 0)
      /\ Cells(t.frames, k) \in Nat /\ Calls(t.frames, k) \in Nat
  BY <1>2, CountFrames
<1> QED
  BY <1>2, <1>3 DEF k

LEMMA LoopEndsStep ==
  ASSUME IInv, LoopEnds
  PROVE  IInv'
<1> DEFINE m == Len(th.frames)
           f == th.frames[m]
           s == [th EXCEPT !.frames = Front(th.frames)]
<1>1. f.kind = "loop" /\ th' = s /\ use' = use
  BY DEF LoopEnds, here
<1>2. FrameSound(th.frames, m)
  BY Here DEF IInv
<1>3. f.phase = "body"
  BY <1>1, <1>2 DEF FrameSound
<1>4. Sane(th) /\ High(th) /\ Settled(th)
  BY <1>3, Here DEF IInv, Exact
<1>5. f.kind # "call" /\ ~Alive(f) /\ ~OnStack(f)
  BY <1>1 DEF Alive, OnStack
<1> HIDE DEF s
<1>6. /\ Sane(s) /\ Settled(s) /\ s.stack = th.stack /\ m \in 2..m
      /\ Len(s.stack) = Cells(th.frames, m - 1) => High(s)
  BY <1>4, <1>5, TopDropped DEF s
<1>7. Cells(th.frames, m) = Cells(th.frames, m - 1)
  BY <1>4, <1>5, <1>6, TopCells
<1>8. Exact(s)
  BY <1>4, <1>6, <1>7 DEF High, Exact
<1> QED
  BY <1>1, <1>8 DEF IInv

LEMMA PartEndsStep ==
  ASSUME IInv, PartEnds
  PROVE  IInv'
<1> DEFINE m == Len(th.frames)
           f == th.frames[m]
           p == th.seqjmp
           e == th.seqjmpbuf[p]
           fr == [th.frames EXCEPT ![m].phase = "finally"]
           g == [f EXCEPT !.phase = "finally"]
           stack == IF f.phase = "body" THEN Front(th.stack) ELSE th.stack
           s == [th EXCEPT !.frames = fr, !.stack = stack, !.seqjmp = p - 1, !.usingstk = e.using]
<1>1. f.kind = "sequence" /\ f.phase \in {"body", "recover"} /\ th' = s /\ use' = use
  BY DEF PartEnds, here
<1>2. /\ th \in Thread /\ m \in 1..m /\ m \in Nat /\ f \in FrameType
      /\ Sane(th) /\ High(th) /\ Settled(th) /\ FrameSound(th.frames, m)
  BY <1>1, Here DEF IInv, Exact
<1>3. Alive(f)
  BY <1>1 DEF Alive
<1>4. p \in 1..p /\ e.frame >= m
  BY <1>2, <1>3, Topmost
<1>5. /\ e \in RecordType /\ e.frame \in 1..m /\ e.frame \in 2..m
      /\ e.stack = Cells(th.frames, e.frame - 1) /\ e.trace = Calls(th.frames, e.frame - 1)
  BY <1>4, RecordFacts, <1>2
<1>6. e.frame = m /\ e.using \in Nat
  <2>1. e.frame \in Nat /\ e.using \in Nat
    BY <1>5 DEF RecordType
  <2> HIDE DEF e
  <2>2. e.frame = m
    BY <1>2, <1>4, <1>5, <2>1
  <2> QED
    BY <2>1, <2>2
<1>7. f.seq \in Int /\ f.seq >= 0
  BY <1>1, <1>2 DEF FrameSound, FrameType
<1>8. g \in FrameType /\ g.kind = "sequence" /\ g.phase = "finally" /\ g.seq = f.seq
  BY <1>1, <1>2 DEF FrameType
<1>9. fr \in Seq(FrameType) /\ Len(fr) = m /\ fr[m] = g /\ \A i \in 1..(m - 1) : fr[i] = th.frames[i]
  <2>1. th.frames \in Seq(FrameType)
    BY <1>2, Typed
  <2>2. fr = [th.frames EXCEPT ![m] = g]
    BY <1>2, <2>1
  <2> HIDE DEF g, fr
  <2> QED
    BY <1>2, <1>8, <2>1, <2>2
<1>10. /\ th.stack \in Seq(Cell) /\ Len(th.stack) \in Nat /\ p \in Nat
       /\ Len(th.stack) = Cells(th.frames, m) /\ th.trace = Calls(th.frames, m)
  BY <1>2, Typed DEF Sane, High
<1>11. /\ Cells(th.frames, m) = Cells(th.frames, m - 1) + (IF OnStack(f) THEN 1 ELSE 0)
       /\ Calls(th.frames, m) = Calls(th.frames, m - 1)
       /\ Cells(th.frames, m - 1) \in Nat
  <2>1. m \in 2..Len(th.frames)
    BY <1>5, <1>6
  <2>2. /\ Cells(th.frames, m) = Cells(th.frames, m - 1) + (IF OnStack(f) THEN 1 ELSE 0)
        /\ Calls(th.frames, m) = Calls(th.frames, m - 1) + (IF f.kind = "call" THEN 1 ELSE 0)
        /\ Cells(th.frames, m - 1) \in Nat /\ Calls(th.frames, m - 1) \in Nat
    BY <1>2, <2>1, TopCells
  <2> HIDE DEF f, m
  <2>3. f.kind # "call"
    BY <1>1
  <2> QED
    BY <2>2, <2>3
<1>12. stack \in Seq(Cell) /\ Len(stack) = Cells(th.frames, m - 1)
  <2>1. CASE f.phase = "body"
    <3>1. OnStack(f)
      BY <1>1, <2>1 DEF OnStack
    <3>2. Len(th.stack) = Cells(th.frames, m - 1) + 1
      BY <1>10, <1>11, <3>1
    <3>a. Len(th.stack) >= 1 /\ th.stack \in Seq(Cell)
      BY <1>10, <1>11, <3>2
    <3>3. Front(th.stack) \in Seq(Cell) /\ Len(Front(th.stack)) = Len(th.stack) - 1
      BY <3>a, Cutting
    <3> QED
      BY <1>11, <2>1, <3>2, <3>3
  <2>2. CASE f.phase # "body"
    <3>1. ~OnStack(f)
      BY <1>1, <1>7, <2>2 DEF OnStack
    <3> QED
      BY <1>10, <1>11, <2>2, <3>1
  <2> QED
    BY <2>1, <2>2
<1> HIDE DEF g, fr, stack
<1>13. /\ s \in Thread /\ s.frames = fr /\ s.stack = stack /\ s.trace = th.trace
       /\ s.usingstkbuf = th.usingstkbuf /\ s.seqjmpbuf = th.seqjmpbuf
       /\ s.seqjmp = p - 1 /\ s.usingstk = e.using
  <2>1. p - 1 \in Nat
    BY <1>4, <1>10
  <2> HIDE DEF p, e
  <2> QED
    BY <1>2, <1>6, <1>9, <1>12, <2>1 DEF Thread
<1> HIDE DEF s
<1>14. Replaced(th.frames, s.frames, m, g)
  BY <1>9, <1>13 DEF Replaced, Agree
<1>15. Goes(th.frames, m - 1, g.seq) /\ ~Pending(g)
  BY <1>7, <1>8 DEF Goes, Pending
<1>16. Len(s.stack) = e.stack + (IF Pending(g) THEN 1 ELSE 0) /\ s.trace = e.trace
  <2>1. Len(s.stack) = e.stack /\ e.stack \in Nat
    BY <1>5, <1>6, <1>11, <1>12, <1>13
  <2>2. s.trace = e.trace
    BY <1>5, <1>6, <1>10, <1>11, <1>13
  <2> QED
    BY <1>15, <2>1, <2>2
<1>17. Exact(s)
  <2>1. p \in 1..th.seqjmp /\ m = th.seqjmpbuf[p].frame
    BY <1>4, <1>6
  <2>2. s.seqjmp = p - 1 /\ s.usingstk = th.seqjmpbuf[p].using /\ s.trace = th.seqjmpbuf[p].trace
        /\ Len(s.stack) = th.seqjmpbuf[p].stack + (IF Pending(g) THEN 1 ELSE 0)
    BY <1>13, <1>16
  <2> HIDE DEF p, m, e
  <2> QED
    BY <1>2, <1>8, <1>13, <1>14, <1>15, <2>1, <2>2, Landed
<1> QED
  BY <1>1, <1>17 DEF IInv

(* The pending exception is taken from the stack.                           *)
LEMMA PopsException ==
  ASSUME NEW t, Sane(t), Settled(t), Len(t.stack) = Cells(t.frames, Len(t.frames)) + 1, NEW s,
         s = [t EXCEPT !.stack = Front(t.stack)]
  PROVE  Sane(s) /\ Settled(s) /\ High(s) /\ Last(t.stack) \in Cell
<1>1. t \in Thread /\ t.stack \in Seq(Cell) /\ Len(t.frames) \in Nat
  BY Typed DEF Sane
<1>2. Cells(t.frames, Len(t.frames)) \in Nat
  BY <1>1, CountFrames
<1>3. Len(t.stack) >= 1
  BY <1>2
<1>4. Front(t.stack) \in Seq(Cell) /\ Len(Front(t.stack)) = Len(t.stack) - 1 /\ Last(t.stack) \in Cell
  BY <1>1, <1>3, Cutting
<1>5. /\ s \in Thread /\ s.frames = t.frames /\ s.stack = Front(t.stack) /\ s.trace = t.trace
      /\ s.usingstkbuf = t.usingstkbuf /\ s.seqjmpbuf = t.seqjmpbuf
      /\ s.seqjmp = t.seqjmp /\ s.usingstk = t.usingstk
  BY <1>1, <1>4 DEF Thread
<1>6. Len(s.stack) = Cells(s.frames, Len(s.frames))
  BY <1>2, <1>4, <1>5
<1>7. Records(s)
  <2>1. \A n : Start(s, n) = Start(t, n)
    BY <1>5 DEF Start
  <2>2. \A n : RecordSound(t, n) => RecordSound(s, n)
    BY <1>5, <2>1 DEF RecordSound
  <2>3. Records(t)
    BY DEF Sane
  <2> QED
    BY <1>5, <2>1, <2>2, <2>3 DEF Records
<1> QED
  BY <1>4, <1>5, <1>6, <1>7 DEF Sane, Settled, High

LEMMA FinallyEndsStep ==
  ASSUME IInv, FinallyEnds
  PROVE  IInv'
<1> DEFINE m == Len(th.frames)
           f == th.frames[m]
           t == [th EXCEPT !.frames = Front(th.frames)]
<1>1. f.kind = "sequence" /\ f.phase = "finally" /\ th' = Dispatch(t, f.seq) /\ use' = use
  BY DEF FinallyEnds, here
<1>2. /\ th \in Thread /\ m \in Nat /\ f \in FrameType
      /\ Sane(th) /\ High(th) /\ Settled(th) /\ FrameSound(th.frames, m)
  BY <1>1, Here DEF IInv, Exact
<1>3. ~Alive(f) /\ f.kind # "call"
  BY <1>1 DEF Alive
<1>4. Goes(th.frames, m - 1, f.seq) /\ f.seq \in Int
  BY <1>1, <1>2 DEF FrameSound, FrameType
<1> HIDE DEF t
<1>5. /\ t \in Thread /\ t.stack = th.stack /\ m \in 2..m
      /\ Len(t.frames) = m - 1 /\ Agree(th.frames, t.frames, m - 1)
      /\ Sane(t) /\ Settled(t)
      /\ Len(t.stack) = Cells(th.frames, m - 1) => High(t)
  BY <1>2, <1>3, TopDropped DEF t
<1>6. m - 1 \in Nat
  BY <1>2, <1>5
<1>7. Goes(t.frames, Len(t.frames), f.seq)
  BY <1>4, <1>5, <1>6, SameWays
<1>8. /\ Len(th.stack) = Cells(th.frames, m - 1) + (IF OnStack(f) THEN 1 ELSE 0)
      /\ Cells(th.frames, m - 1) \in Nat
  <2>1. Cells(th.frames, m) = Cells(th.frames, m - 1) + (IF OnStack(f) THEN 1 ELSE 0)
        /\ Cells(th.frames, m - 1) \in Nat
    BY <1>2, <1>5, TopCells
  <2> QED
    BY <1>2, <2>1 DEF High
<1>9. OnStack(f) <=> f.seq \in {-1, -2}
  BY <1>1 DEF OnStack
<1>10. Cells(t.frames, Len(t.frames)) = Cells(th.frames, m - 1)
  <2>1. \A i \in 1..(m - 1) : t.frames[i] = th.frames[i]
    BY <1>5 DEF Agree
  <2> QED
    BY <1>5, <1>6, <2>1, CountSame
<1>11. f.seq \notin {-1, -2} => High(t)
  BY <1>5, <1>8, <1>9
<1>12. f.seq >= 0 \/ f.seq = -1 \/ f.seq = -2 \/ f.seq = -3 \/ f.seq = -4
  BY <1>4 DEF Goes
<1> HIDE DEF f
<1>13. CASE f.seq >= 0
  <2>1. Dispatch(t, f.seq) = t
    <3> DEFINE seq == f.seq
    <3>1. seq >= 0 /\ seq # -1 /\ seq # -2 /\ seq # -3 /\ seq # -4
      BY <1>4, <1>13
    <3> HIDE DEF seq
    <3>2. Dispatch(t, seq) = t
      BY <3>1 DEF Dispatch
    <3> QED
      BY <3>2 DEF seq
  <2>2. High(t)
    BY <1>4, <1>11, <1>13
  <2> QED
    BY <1>1, <1>5, <2>1, <2>2 DEF IInv, Exact
<1>14. CASE f.seq = -1
  <2> DEFINE r == [t EXCEPT !.stack = Front(t.stack)]
  <2>1. Dispatch(t, f.seq) = break(r, Last(t.stack), FALSE)
    BY <1>14 DEF Dispatch
  <2>2. Len(t.stack) = Cells(t.frames, Len(t.frames)) + 1
    BY <1>5, <1>8, <1>9, <1>10, <1>14
  <2> HIDE DEF r
  <2>3. Sane(r) /\ Settled(r) /\ High(r) /\ Last(t.stack) \in Cell
    BY <1>5, <2>2, PopsException DEF r
  <2>4. Exact(break(r, Last(t.stack), FALSE))
    BY <2>3, BreakExact
  <2> QED
    BY <1>1, <2>1, <2>4 DEF IInv
<1>15. CASE f.seq = -2
  <2>1. Dispatch(t, f.seq) = return(t)
    BY <1>15 DEF Dispatch
  <2>2. Returns(t.frames, Len(t.frames))
    BY <1>7, <1>15 DEF Goes
  <2>3. Exact(return(t))
    BY <1>5, <2>2, ReturnExact
  <2> QED
    BY <1>1, <2>1, <2>3 DEF IInv
<1>16. CASE f.seq = -3 \/ f.seq = -4
  <2>1. Dispatch(t, f.seq) \in {loop(t), exit(t)}
    <3>1. CASE f.seq = -3
      BY <3>1 DEF Dispatch
    <3>2. CASE f.seq = -4
      BY <3>2 DEF Dispatch
    <3> QED
      BY <1>16, <3>1, <3>2
  <2>2. Loops(t.frames, Len(t.frames)) /\ High(t)
    BY <1>7, <1>11, <1>16 DEF Goes
  <2>3. Exact(loop(t)) /\ Exact(exit(t))
    BY <1>5, <2>2, JumpExact
  <2> QED
    BY <1>1, <2>1, <2>3 DEF IInv
<1> QED
  BY <1>12, <1>13, <1>14, <1>15, <1>16

-----------------------------------------------------------------------------
LEMMA Beginning ==
  ASSUME Init
  PROVE  IInv
<1> DEFINE g == Frame("call", NoText, 0)
           fr == <<g>>
           stack == <<"arg">>
           e == <<>>
           t == [frames |-> fr, stack |-> stack, trace |-> 1,
                 usingstkbuf |-> e, usingstk |-> 0, seqjmpbuf |-> e, seqjmp |-> 0]
<1>1. th = t /\ use \in Uses
  BY DEF Init
<1>2. g \in FrameType /\ g.kind = "call" /\ g.phase = "body" /\ g.seq = 0 /\ g.at = 0
  BY DEF Frame, FrameType, Cell
<1>3. stack \in Seq(Cell) /\ Len(stack) = 1 /\ e \in Seq(Slot) /\ e \in Seq(RecordType) /\ Len(e) = 0
  BY DEF Cell
<1> HIDE DEF g
<1>4. fr \in Seq(FrameType) /\ Len(fr) = 1 /\ fr[1] = g
  BY <1>2
<1>5. Cells(fr, 0) = 0 /\ Cells(fr, 1) = 1 /\ Calls(fr, 1) = 1
  <2> HIDE DEF fr
  <2>1. OnStack(fr[0 + 1]) /\ fr[0 + 1].kind = "call"
    BY <1>2, <1>4 DEF OnStack
  <2>2. /\ Cells(fr, 0) = 0 /\ Calls(fr, 0) = 0
        /\ Cells(fr, 0 + 1) = Cells(fr, 0) + (IF OnStack(fr[0 + 1]) THEN 1 ELSE 0)
        /\ Calls(fr, 0 + 1) = Calls(fr, 0) + (IF fr[0 + 1].kind = "call" THEN 1 ELSE 0)
    BY CountFrames
  <2> QED
    BY <2>1, <2>2
<1> HIDE DEF fr, stack, e
<1>6. /\ t \in Thread /\ t.frames = fr /\ t.stack = stack /\ t.trace = 1
      /\ t.seqjmp = 0 /\ t.usingstk = 0 /\ t.seqjmpbuf = e /\ t.usingstkbuf = e
  BY <1>3, <1>4 DEF Thread
<1> HIDE DEF t
<1>7. FrameSound(fr, 1)
  BY <1>2, <1>4, <1>5 DEF FrameSound
<1>8. Nested(fr)
  BY <1>2, <1>4, <1>7 DEF Nested
<1>9. \A i \in 1..1 : ~Alive(fr[i]) /\ fr[i].phase # "using"
  BY <1>2, <1>4 DEF Alive
<1>10. Records(t)
  <2>1. \A n \in 1..(0 + 1) : Start(t, n) = 0
    BY <1>6 DEF Start
  <2>2. /\ t.seqjmp <= Len(t.seqjmpbuf) /\ t.usingstk <= Len(t.usingstkbuf)
        /\ \A i \in 1..Len(t.frames) : ~Alive(t.frames[i])
    <3>1. t.seqjmp <= Len(t.seqjmpbuf) /\ t.usingstk <= Len(t.usingstkbuf)
      BY <1>3, <1>6
    <3>2. t.frames = fr /\ Len(t.frames) = 1
      BY <1>4, <1>6
    <3> QED
      BY <1>9, <3>1, <3>2
  <2>3. 1..t.seqjmp = {} /\ 1..(t.seqjmp + 1) = {1} /\ Start(t, 1) = 0
    BY <1>6, <2>1
  <2> QED
    BY <2>2, <2>3 DEF Records
<1>11. Sane(t) /\ High(t) /\ Settled(t)
  BY <1>3, <1>4, <1>5, <1>6, <1>8, <1>9, <1>10 DEF Sane, High, Settled
<1> QED
  BY <1>1, <1>11 DEF IInv, Exact

(* IInv is inductive: each step keeps it.                                   *)
LEMMA Stepping ==
  ASSUME IInv, Disciplined, [Next]_vars
  PROVE  IInv'
<1>1. CASE Call
  BY <1>1, CallStep
<1>2. CASE Loop
  BY <1>2, LoopStep
<1>3. CASE Using
  BY <1>3, UsingStep
<1>4. CASE Enter
  BY <1>4, EnterStep
<1>5. CASE Return
  BY <1>5, ReturnStep
<1>6. CASE Jump
  BY <1>6, JumpStep
<1>7. CASE LoopEnds
  BY <1>7, LoopEndsStep
<1>8. CASE PartEnds
  BY <1>8, PartEndsStep
<1>9. CASE FinallyEnds
  BY <1>9, FinallyEndsStep
<1>10. ASSUME NEW text \in use.texts, Begin(text) PROVE IInv'
  BY <1>10, BeginStep
<1>11. ASSUME NEW exc \in use.excs, Break(exc) PROVE IInv'
  BY <1>11, BreakStep
<1>12. CASE UNCHANGED vars
  <2>1. th' = th /\ use' = use
    BY <1>12 DEF vars
  <2> QED
    BY <2>1 DEF IInv
<1> QED
  BY <1>1, <1>2, <1>3, <1>4, <1>5, <1>6, <1>7, <1>8, <1>9, <1>10, <1>11, <1>12 DEF Next

(* Whatever order functions, loops and sequences are entered and left in,   *)
(* the records are those of the sequences around the statement, each says   *)
(* how high the stack and the trace were where its sequence began, and the  *)
(* slots of each end where those of the next begin.                         *)
THEOREM SequenceInductive ==
  ASSUME Disciplined
  PROVE  Spec => []IInv
<1>1. Init => IInv
  BY Beginning
<1>2. IInv /\ [Next]_vars => IInv'
  BY Stepping
<1> QED
  BY <1>1, <1>2, PTL DEF Spec

-----------------------------------------------------------------------------
LEMMA SlotsFollow ==
  ASSUME IInv
  PROVE  SlotsExact
<1> DEFINE p == th.seqjmp
           J == th.seqjmpbuf
           fr == th.frames
           buf == th.usingstkbuf
<1>1. th \in Thread /\ Records(th) /\ Sane(th)
  BY DEF IInv, Exact, Sane
<1>2. /\ fr \in Seq(FrameType) /\ Len(fr) \in Nat /\ buf \in Seq(Slot) /\ Len(buf) \in Nat
      /\ p \in Nat /\ th.usingstk \in Nat
  BY <1>1, Typed
<1>3. \A n : Bottom(n) = Start(th, n)
  BY DEF Bottom, Start
<1>4. {J[n].frame : n \in 1..p} = Live
  <2>1. DOMAIN fr = 1..Len(fr)
    BY <1>2
  <2>2. Live = {i \in 1..Len(fr) : Alive(fr[i])}
    BY <2>1 DEF Live, Alive
  <2>3. \A n \in 1..p : J[n].frame \in 1..Len(fr) /\ Alive(fr[J[n].frame])
    BY <1>1, RecordFacts
  <2>4. \A i \in 1..Len(fr) : Alive(fr[i]) => \E n \in 1..p : J[n].frame = i
    BY <1>1 DEF Records
  <2> HIDE DEF J, p, fr
  <2>5. {J[n].frame : n \in 1..p} \subseteq {i \in 1..Len(fr) : Alive(fr[i])}
    BY <2>3
  <2>6. {i \in 1..Len(fr) : Alive(fr[i])} \subseteq {J[n].frame : n \in 1..p}
    BY <2>4
  <2> QED
    BY <2>2, <2>5, <2>6
<1>5. \A m, n \in 1..p : m < n => J[m].frame < J[n].frame
  BY <1>1 DEF Records
<1>6. Bottom(1) = 0
  BY <1>1, <1>3 DEF Records
<1>7. ASSUME NEW n \in 1..p
      PROVE  SubSeq(buf, Bottom(n) + 1, Bottom(n + 1)) = SlotsOf(fr[J[n].frame])
  <2> DEFINE l == SlotsOf(fr[J[n].frame])
             a == Start(th, n)
             b == Start(th, n + 1)
             v == SubSeq(buf, a + 1, b)
  <2>1. /\ a \in Nat /\ b = a + Len(l) /\ b <= th.usingstk /\ Written(buf, a, l)
        /\ fr[J[n].frame] \in FrameType /\ Alive(fr[J[n].frame])
    BY <1>1, RecordFacts
  <2>2. l \in Seq(Slot) /\ Len(l) \in Nat
    BY <2>1, SlotsOfFrame
  <2>3. b <= Len(buf) /\ b \in Nat
    <3>1. th.usingstk <= Len(buf)
      BY <1>1 DEF Records
    <3> HIDE DEF a, b, l, buf
    <3> QED
      BY <1>2, <2>1, <2>2, <3>1
  <2> HIDE DEF a, b, l, buf
  <2>4. /\ v \in Seq(Slot) /\ Len(v) = IF a + 1 <= b THEN b - (a + 1) + 1 ELSE 0
        /\ \A i \in 1..(b - (a + 1) + 1) : v[i] = buf[(a + 1) + i - 1]
    <3>1. \A i \in (a + 1)..b : buf[i] \in Slot
      BY <1>2, <2>1, <2>3
    <3>2. a + 1 \in Int /\ b \in Int
      BY <2>1, <2>3
    <3> DEFINE c == a + 1
    <3> HIDE DEF c
    <3>3. /\ SubSeq(buf, c, b) \in Seq(Slot) /\ Len(SubSeq(buf, c, b)) = IF c <= b THEN b - c + 1 ELSE 0
          /\ \A i \in 1..b-c+1 : SubSeq(buf, c, b)[i] = buf[c + i - 1]
      BY <1>2, <3>1, <3>2, SubSeqProperties DEF c
    <3> QED
      BY <2>1, <2>3, <3>3 DEF c
  <2> HIDE DEF v
  <2>5. Len(v) = Len(l) /\ \A i \in 1..Len(l) : v[i] = buf[a + i]
    <3>1. a \in Nat /\ b = a + Len(l) /\ Len(l) \in Nat
      BY <2>1, <2>2
    <3>2. b - (a + 1) + 1 = Len(l) /\ (a + 1 <= b <=> Len(l) >= 1)
      BY <3>1
    <3>3. Len(v) = Len(l)
      BY <2>4, <3>1, <3>2
    <3>4. \A i \in 1..Len(l) : (a + 1) + i - 1 = a + i
      BY <3>1
    <3> QED
      BY <2>4, <3>2, <3>3, <3>4
  <2>6. \A i \in 1..Len(l) : v[i] = l[i]
    BY <2>1, <2>5 DEF Written
  <2>7. v = l
    BY <2>2, <2>4, <2>5, <2>6, SeqEqual
  <2> QED
    BY <1>3, <2>7 DEF a, b, l, v
<1> QED
  BY <1>4, <1>5, <1>6, <1>7 DEF SlotsExact

LEMMA StackFollows ==
  ASSUME IInv
  PROVE  StackExact
<1>1. th \in Thread /\ Sane(th) /\ High(th)
  BY DEF IInv, Exact, Sane
<1>2. DOMAIN th.frames = 1..Len(th.frames)
  <2>1. th.frames \in Seq(FrameType)
    BY <1>1, Typed
  <2> QED
    BY <2>1
<1> QED
  BY <1>1, <1>2 DEF StackExact, Sane, High, Cells, Calls

(* The types of the recovers that break.cpp searches are those of the       *)
(* sequences around the statement, and the records longjmp goes to are      *)
(* theirs, in the order of the nesting.                                     *)
THEOREM SlotsAreExact ==
  ASSUME Disciplined
  PROVE  Spec => []SlotsExact
BY SequenceInductive, SlotsFollow, PTL

(* After every break, return, loop, exit and end of a finally the stack and *)
(* the trace are as high as the code that goes on expects them.             *)
THEOREM StackIsExact ==
  ASSUME Disciplined
  PROVE  Spec => []StackExact
BY SequenceInductive, StackFollows, PTL

=============================================================================
