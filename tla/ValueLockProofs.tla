--------------------------- MODULE ValueLockProofs ---------------------------
(***************************************************************************)
(* Proofs about the striped locks, for any number of threads, variables    *)
(* and mutexes and any hash of the addresses.                              *)
(*                                                                         *)
(* The code a thread has still to execute is checked against a monitor     *)
(* whose state is what the thread holds, the reference it has written half *)
(* and what it knows of the values it has read.  Every operation leads the *)
(* monitor from nothing held to nothing held, and by each instruction only *)
(* as the discipline of varlock.h allows; the invariant says that the code *)
(* left does so, and that what the monitors know is true.                  *)
(***************************************************************************)
EXTENDS ValueLock, TLAPS

-----------------------------------------------------------------------------
Zero == <<"value", 0>>
Stripes == {<<"value", i>> : i \in 1..PRIME}
Values == {Zero} \cup Stripes
Key(l) == <<"value", Stripe[l]>>
MarkKey(o) == <<"mark", Stripe[o]>>
Vref == <<"vref", 0>>
Tables == {<<"oref", 0>>, Vref}

(* What a thread holds; the location and source of a reference it may have  *)
(* written half; whether vref_new has written half of its own reference;    *)
(* whether the top of its stack is known to be no reference; the variables  *)
(* known to be references.                                                  *)
State(h, mid, half, p, r) ==
  [held |-> h, mid |-> mid, half |-> half, plain |-> p, ref |-> r]

States == [held : SUBSET Mutex, mid : SUBSET (Loc \X Loc), half : BOOLEAN,
           plain : BOOLEAN, ref : SUBSET Var]

Calm(h, p) == State(h, {}, FALSE, p, {})
Whole2(s) == s.mid = {} /\ s.half = FALSE

(* Thread a may take m while it holds h: not what it has; another value     *)
(* mutex only with mutex 0; and without asort a thread that holds           *)
(* something waits for value mutexes and with mutex 0, unless it is the     *)
(* collector on its way to mutex 0.                                         *)
MayLock(a, m, h) ==
  /\ m \notin h
  /\ m[1] = "value" /\ h \cap Stripes # {} => Zero \in h
  /\ "asort" \notin Ops /\ h # {} =>
       \/ Zero \in h /\ (a \in Mutator => m[1] = "value")
       \/ a = Collector /\ m = Zero

(* What keeps the other threads from location l.                            *)
MayWrite(a, l, h) ==
  /\ a \in Mutator
  /\ l \in Mutator => l = a
  /\ l \in Var => Key(l) \in h
  /\ l \in Cell => h \cap Stripes # {} \/ Vref \in h
  /\ l \in Elem => Key(l) \in h \/ MarkKey(ArrOf[l]) \in h

(* Elements and the values of vrefs may be read while others write them.    *)
MayRead(a, l, h) ==
  /\ l \in Mutator => l = a
  /\ l \in Var => Key(l) \in h

Referring(a) == Var \cup {a}
Never == Elem \cup Cell

MayMove(a, p, to, from, h) ==
  /\ MayWrite(a, to, h) /\ MayRead(a, from, h)
  /\ to \in Var => from = a
  /\ to \in Referring(a) => h \cap Stripes # {}
  /\ to \in Never => from \in Never \/ (from = a /\ p)

Mid(a, to, from) == IF to \in Referring(a) THEN {<<to, from>>} ELSE {}

(* Whether the top of the stack is still no reference.                      *)
Kept(a, p, to, from) ==
  IF to = a THEN from \in Never \/ (from = a /\ p) ELSE p

(* The collector holds both tables only with all the value mutexes.         *)
ScanSafe(a, h) == a = Collector /\ Tables \subseteq h => Stripes \subseteq h

RefKept(s, t) == \A v \in t.ref : v \in s.ref /\ Key(v) \in t.held

LeadsLock(a, m, s, t) ==
  /\ Whole2(s) /\ MayLock(a, m, s.held)
  /\ t = State(s.held \cup {m}, {}, FALSE, s.plain, t.ref) /\ RefKept(s, t)

LeadsFree(m, s, t) ==
  /\ Whole2(s) /\ m \in s.held
  /\ t = State(s.held \ {m}, {}, FALSE, s.plain, t.ref) /\ RefKept(s, t)

LeadsUnlock(s, t) ==
  /\ Whole2(s)
  /\ t = State(s.held \ Stripes, {}, FALSE, s.plain, t.ref) /\ RefKept(s, t)

LeadsType(a, to, from, s, t) ==
  /\ Whole2(s) /\ MayMove(a, s.plain, to, from, s.held)
  /\ t = State(s.held, Mid(a, to, from), FALSE, t.plain, {})
  /\ t.plain => Kept(a, s.plain, to, from)

LeadsData(a, to, from, s, t) ==
  /\ s.mid = Mid(a, to, from) /\ s.half = FALSE
  /\ MayMove(a, s.plain, to, from, s.held)
  /\ t = State(s.held, {}, FALSE, s.plain, {})

LeadsPutType(a, l, w, s, t) ==
  \/ /\ Whole2(s) /\ w \in Scalar
     /\ MayWrite(a, l, s.held) /\ l \in Elem \cup {a}
     /\ t = State(s.held, {}, FALSE, t.plain, {})
     /\ t.plain => l = a \/ s.plain
  \/ /\ Whole2(s) /\ w = "ref" /\ l = a /\ a \in Mutator /\ Vref \in s.held
     /\ t = State(s.held, {}, TRUE, FALSE, {})

LeadsPutData(a, l, w, s, t) ==
  /\ l = a /\ a \in Mutator /\ s.mid = {}
  /\ \/ /\ w \in Datum /\ s.half = FALSE /\ s.plain
        /\ t = State(s.held, {}, FALSE, s.plain, {})
     \/ /\ w \in Cell /\ s.half = TRUE /\ Vref \in s.held
        /\ t = State(s.held, {}, FALSE, FALSE, {})

(* Who reads the type of v, or follows it, by one of the functions.         *)
MayTest(a, how, v, p, h) ==
  \/ /\ how = "load" /\ a \in Mutator /\ v \in Var \cup Elem
     /\ h \cap Values = {Zero, Key(v)}
  \/ /\ how = "store" /\ a \in Mutator /\ v \in Var /\ p
     /\ h \cap Values = {Zero, Key(v)}
  \/ /\ how = "shade" /\ a = Collector /\ v \in Var \cup Elem
     /\ h \cap Values = {Zero, Key(v)} /\ ~(Tables \subseteq h) /\ ~p
  \/ /\ how = "mark" /\ a = Collector /\ v \in Var \cup Elem \cup Mutator
     /\ Values \subseteq h /\ ~p

MayFollow(a, how, v, p, h) ==
  \/ /\ how = "load" /\ a \in Mutator /\ v \in Var
     /\ h \cap Values = {Key(v)}
  \/ /\ how = "store" /\ a \in Mutator /\ v \in Var /\ p
     /\ h \cap Values = {Key(v)}
  \/ /\ how = "shade" /\ a = Collector /\ v \in Var
     /\ h \cap Values = {Zero, Key(v)} /\ ~(Tables \subseteq h) /\ ~p
  \/ /\ how = "mark" /\ a = Collector /\ v \in Var \cup Mutator
     /\ Values \subseteq h /\ ~p

Left(how, h) == IF how = "mark" THEN h ELSE h \ Values

Still(how) == IF how = "store" THEN TRUE ELSE FALSE

LeadsTest(a, how, v, s, t) ==
  /\ Whole2(s) /\ MayTest(a, how, v, s.plain, s.held)
  /\ t = Calm(Left(how, s.held), Still(how))

LeadsFollow(a, how, v, s, t) ==
  /\ Whole2(s) /\ MayFollow(a, how, v, s.plain, s.held)
  /\ v \in Var => v \in s.ref
  /\ t = Calm(Left(how, s.held), Still(how))

LeadsCapture(a, s, t) ==
  /\ Whole2(s) /\ a \in Mutator /\ s.held = {}
  /\ t = Calm({}, FALSE)

LeadsTake(a, s, t) ==
  /\ Whole2(s) /\ a \in Mutator /\ s.held = {Vref} /\ s.plain
  /\ t = Calm({}, FALSE)

LeadsScan(a, s, t) ==
  /\ Whole2(s) /\ a = Collector /\ Values \subseteq s.held
  /\ t = Calm(s.held, FALSE)

LeadsVisit(a, how, s, t) ==
  /\ Whole2(s) /\ a = Collector /\ t = Calm(s.held, FALSE)
  /\ \/ how = "shade" /\ s.held \cap (Values \cup Tables) = {}
     \/ how = "mark" /\ Values \subseteq s.held

(* Instruction i of thread a leads the monitor from s to t.                 *)
Leads(a, i, s, t) ==
  /\ i \in Instruction
  /\ ScanSafe(a, s.held)
  /\ i[1] = "lock" => LeadsLock(a, i[2], s, t)
  /\ i[1] = "free" => LeadsFree(i[2], s, t)
  /\ i[1] = "unlock" => LeadsUnlock(s, t)
  /\ i[1] = "type" => LeadsType(a, i[2], i[3], s, t)
  /\ i[1] = "data" => LeadsData(a, i[2], i[3], s, t)
  /\ i[1] = "put" /\ i[2] = "type" => LeadsPutType(a, i[3], i[4], s, t)
  /\ i[1] = "put" /\ i[2] = "data" => LeadsPutData(a, i[3], i[4], s, t)
  /\ i[1] = "test" => LeadsTest(a, i[2], i[3], s, t)
  /\ i[1] = "follow" => LeadsFollow(a, i[2], i[3], s, t)
  /\ i[1] = "capture" => LeadsCapture(a, s, t)
  /\ i[1] = "take" => LeadsTake(a, s, t)
  /\ i[1] = "scan" => LeadsScan(a, s, t)
  /\ i[1] = "visit" => LeadsVisit(a, i[2], s, t)

(* The code c leads the monitor of a from s to t.                           *)
Runs(a, c, s, t) ==
  /\ c \in Seq(Instruction)
  /\ \E H \in [1..Len(c)+1 -> States] :
       /\ H[1] = s
       /\ H[Len(c)+1] = t
       /\ \A j \in 1..Len(c) : Leads(a, c[j], H[j], H[j+1])

(* From holding h to holding g, with nothing half written at both ends.     *)
Does(a, c, h, p, g, q) == Runs(a, c, Calm(h, p), Calm(g, q))

-----------------------------------------------------------------------------
(* The monitor and sequences.                                               *)

LEMMA Kinds ==
  /\ Zero \in Mutex /\ Stripes \subseteq Mutex /\ Values \subseteq Mutex
  /\ Tables \subseteq Mutex /\ Zero \notin Stripes /\ Vref \in Mutex /\ Vref \in Tables
  /\ Tables \cap Values = {}
  /\ \A m \in Mutex : m \in Values <=> m[1] = "value"
  /\ \A m \in Mutex : m \in Stripes <=> m[1] = "value" /\ m[2] > 0
  /\ \A l \in Hashed : Key(l) \in Stripes /\ MarkKey(l) \in Mutex
  /\ \A o \in Hashed : MarkKey(o) \notin Values \cup Tables
BY StripeAssumption DEF Mutex, Zero, Stripes, Values, Tables, Vref, Key, MarkKey

LEMMA RunsNothing ==
  ASSUME NEW a, NEW s \in States
  PROVE  Runs(a, <<>>, s, s)
<1> DEFINE H == [j \in 1..1 |-> s]
<1>1. H \in [1..Len(<<>>)+1 -> States] /\ H[1] = s
  OBVIOUS
<1> HIDE DEF H
<1>2. <<>> \in Seq(Instruction) /\ Len(<<>>) = 0
  OBVIOUS
<1> QED
  BY <1>1, <1>2 DEF Runs

LEMMA RunsThen ==
  ASSUME NEW a, NEW c, NEW d, NEW s, NEW t, NEW u,
         Runs(a, c, s, t), Runs(a, d, t, u)
  PROVE  Runs(a, c \o d, s, u)
<1>1. PICK F \in [1..Len(c)+1 -> States] :
        /\ F[1] = s /\ F[Len(c)+1] = t
        /\ \A j \in 1..Len(c) : Leads(a, c[j], F[j], F[j+1])
  BY DEF Runs
<1>2. PICK G \in [1..Len(d)+1 -> States] :
        /\ G[1] = t /\ G[Len(d)+1] = u
        /\ \A j \in 1..Len(d) : Leads(a, d[j], G[j], G[j+1])
  BY DEF Runs
<1>3. /\ c \in Seq(Instruction) /\ d \in Seq(Instruction)
      /\ Len(c) \in Nat /\ Len(d) \in Nat
  BY DEF Runs
<1>4. c \o d \in Seq(Instruction) /\ Len(c \o d) = Len(c) + Len(d)
  BY <1>3
<1> DEFINE H == [j \in 1..Len(c)+Len(d)+1 |->
                   IF j <= Len(c) THEN F[j] ELSE G[j - Len(c)]]
<1>5. H \in [1..Len(c \o d)+1 -> States]
  BY <1>3, <1>4
<1>6. /\ \A j \in 1..Len(c)+1 : H[j] = F[j]
      /\ \A j \in 1..Len(d)+1 : H[j + Len(c)] = G[j]
  BY <1>1, <1>2, <1>3
<1> HIDE DEF H
<1>7. H[1] = s /\ H[Len(c \o d)+1] = u
  BY <1>1, <1>2, <1>3, <1>4, <1>6
<1>8. ASSUME NEW j \in 1..Len(c \o d)
      PROVE  Leads(a, (c \o d)[j], H[j], H[j+1])
  <2>1. CASE j \in 1..Len(c)
    <3>1. (c \o d)[j] = c[j] /\ H[j] = F[j] /\ H[j+1] = F[j+1]
      BY <1>3, <1>6, <2>1
    <3> QED
      BY <1>1, <2>1, <3>1
  <2>2. CASE j \notin 1..Len(c)
    <3>1. PICK k \in 1..Len(d) : j = k + Len(c)
      <4>1. j - Len(c) \in 1..Len(d) /\ j = (j - Len(c)) + Len(c)
        BY <1>3, <1>4, <2>2
      <4> QED
        BY <4>1
    <3>2. (c \o d)[j] = d[k]
      BY <1>3, <1>4, <2>2, <3>1
    <3>3. H[j] = G[k] /\ H[j+1] = G[k+1]
      <4>1. k \in 1..Len(d)+1 /\ k+1 \in 1..Len(d)+1 /\ j+1 = (k+1) + Len(c)
        BY <1>3, <3>1
      <4> QED
        BY <1>6, <3>1, <4>1
    <3> QED
      BY <1>2, <3>1, <3>2, <3>3
  <2> QED
    BY <2>1, <2>2
<1> QED
  BY <1>4, <1>5, <1>7, <1>8 DEF Runs

(* What has been executed drops out.                                        *)
LEMMA RunsTail ==
  ASSUME NEW a, NEW c, NEW s, NEW t, Runs(a, c, s, t), c # <<>>
  PROVE  \E u \in States : Leads(a, Head(c), s, u) /\ Runs(a, Tail(c), u, t)
<1>1. PICK F \in [1..Len(c)+1 -> States] :
        /\ F[1] = s /\ F[Len(c)+1] = t
        /\ \A j \in 1..Len(c) : Leads(a, c[j], F[j], F[j+1])
  BY DEF Runs
<1>2. c \in Seq(Instruction) /\ Len(c) \in Nat /\ Len(c) # 0
  BY DEF Runs
<1>3. Tail(c) \in Seq(Instruction) /\ Len(Tail(c)) = Len(c) - 1 /\ Head(c) = c[1]
  BY <1>2
<1> DEFINE H == [j \in 1..Len(c) |-> F[j+1]]
<1>4. H \in [1..Len(Tail(c))+1 -> States]
  BY <1>2, <1>3
<1>5. H[1] = F[2] /\ H[Len(Tail(c))+1] = t
  BY <1>1, <1>2, <1>3
<1>6. ASSUME NEW j \in 1..Len(Tail(c)) PROVE Leads(a, Tail(c)[j], H[j], H[j+1])
  <2>1. /\ j+1 \in 1..Len(c) /\ Tail(c)[j] = c[j+1]
        /\ H[j] = F[j+1] /\ H[j+1] = F[(j+1)+1]
    BY <1>2, <1>3
  <2> QED
    BY <1>1, <2>1
<1> HIDE DEF H
<1>7. Runs(a, Tail(c), F[2], t)
  BY <1>3, <1>4, <1>5, <1>6 DEF Runs
<1>8. Leads(a, Head(c), s, F[2]) /\ F[2] \in States
  <2>1. 1 \in 1..Len(c) /\ 2 \in 1..Len(c)+1 /\ 1+1 = 2
    BY <1>2
  <2> QED
    BY <1>1, <1>3, <2>1
<1> QED
  BY <1>7, <1>8

LEMMA RunsOne ==
  ASSUME NEW a, NEW i, NEW s \in States, NEW t \in States, Leads(a, i, s, t)
  PROVE  Runs(a, <<i>>, s, t)
<1> DEFINE H == [j \in 1..2 |-> IF j = 1 THEN s ELSE t]
<1>1. <<i>> \in Seq(Instruction) /\ Len(<<i>>) = 1 /\ <<i>>[1] = i
  BY DEF Leads
<1>2. H \in [1..Len(<<i>>)+1 -> States] /\ H[1] = s /\ H[2] = t
  BY <1>1
<1> HIDE DEF H
<1>3. H[Len(<<i>>)+1] = t /\ H[1+1] = t
  BY <1>1, <1>2
<1>4. ASSUME NEW j \in 1..Len(<<i>>) PROVE Leads(a, <<i>>[j], H[j], H[j+1])
  <2>1. j = 1
    BY <1>1
  <2> QED
    BY <1>1, <1>2, <1>3, <2>1
<1> QED
  BY <1>1, <1>2, <1>3, <1>4 DEF Runs

-----------------------------------------------------------------------------
(* The pieces the operations are made of.                                   *)

LEMMA CalmFacts ==
  ASSUME NEW h \in SUBSET Mutex, NEW p \in BOOLEAN
  PROVE  /\ Calm(h, p).held = h /\ Calm(h, p).mid = {} /\ Calm(h, p).half = FALSE
         /\ Calm(h, p).plain = p /\ Calm(h, p).ref = {}
         /\ Whole2(Calm(h, p))
         /\ \A s : RefKept(s, Calm(h, p))
         /\ Calm(h, p) \in States
BY DEF Calm, State, Whole2, States, RefKept

LEMMA DoesThen ==
  ASSUME NEW a, NEW c, NEW d, NEW h, NEW p, NEW g, NEW q, NEW f, NEW r,
         Does(a, c, h, p, g, q), Does(a, d, g, q, f, r)
  PROVE  Does(a, c \o d, h, p, f, r)
BY RunsThen DEF Does

LEMMA DoesNothing ==
  ASSUME NEW a, NEW h \in SUBSET Mutex, NEW p \in BOOLEAN
  PROVE  Does(a, <<>>, h, p, h, p)
BY CalmFacts, RunsNothing DEF Does

LEMMA DoesOne ==
  ASSUME NEW a, NEW i, NEW h \in SUBSET Mutex, NEW p \in BOOLEAN,
         NEW g \in SUBSET Mutex, NEW q \in BOOLEAN,
         Leads(a, i, Calm(h, p), Calm(g, q))
  PROVE  Does(a, <<i>>, h, p, g, q)
BY CalmFacts, RunsOne DEF Does

LEMMA LocKinds ==
  /\ Loc \subseteq Hashed /\ Var \cup Elem \cup Cell \cup Mutator = Loc
  /\ Mutator \subseteq Actor /\ Collector \in Actor /\ Collector \notin Mutator
  /\ \A m \in Mutator : \A h : ScanSafe(m, h)
  /\ \A l \in Var \cup Elem \cup Cell : l \notin Mutator
  /\ \A l \in Var \cup Elem : l \notin Cell
  /\ \A l \in Mutator : l \notin Var /\ l \notin Elem /\ l \notin Cell
  /\ \A l \in Var : l \notin Elem
  /\ \A e \in Elem : ArrOf[e] \in Arr /\ ArrOf[e] \in Hashed
<1>1. Loc \subseteq Hashed /\ Var \cup Elem \cup Cell \cup Mutator = Loc
  BY DEF Loc, Hashed
<1>2. Mutator \subseteq Actor /\ Collector \in Actor /\ Collector \notin Mutator
  BY NameAssumption DEF Actor
<1>3. \A m \in Mutator : \A h : ScanSafe(m, h)
  BY <1>2 DEF ScanSafe
<1>4. /\ \A l \in Var \cup Elem \cup Cell : l \notin Mutator
      /\ \A l \in Var \cup Elem : l \notin Cell
      /\ \A l \in Mutator : l \notin Var /\ l \notin Elem /\ l \notin Cell
      /\ \A l \in Var : l \notin Elem
  BY LocAssumption
<1>5. \A e \in Elem : ArrOf[e] \in Arr /\ ArrOf[e] \in Hashed
  BY LocAssumption DEF Hashed
<1> QED
  BY <1>1, <1>2, <1>3, <1>4, <1>5

LEMMA DoesLock ==
  ASSUME NEW a, NEW m \in Mutex, NEW h \in SUBSET Mutex, NEW p \in BOOLEAN,
         MayLock(a, m, h), ScanSafe(a, h)
  PROVE  Does(a, <<<<"lock", m>>>>, h, p, h \cup {m}, p)
<1> DEFINE i == <<"lock", m>>
           s == Calm(h, p)
           t == Calm(h \cup {m}, p)
<1>1. i \in Instruction /\ i[1] = "lock" /\ i[2] = m
  BY DEF Instruction
<1>6. h \cup {m} \in SUBSET Mutex
  OBVIOUS
<1>2. Whole2(s) /\ s.held = h /\ s.plain = p /\ t.ref = {} /\ RefKept(s, t)
  BY <1>6, CalmFacts
<1>3. t = State(s.held \cup {m}, {}, FALSE, s.plain, t.ref)
  BY <1>2 DEF Calm
<1> HIDE DEF i, s, t
<1>4. LeadsLock(a, i[2], s, t)
  BY <1>1, <1>2, <1>3 DEF LeadsLock
<1>5. Leads(a, i, s, t)
  BY <1>1, <1>2, <1>4 DEF Leads
<1>7. Does(a, <<i>>, h, p, h \cup {m}, p)
  BY <1>5, <1>6, DoesOne DEF s, t
<1> QED
  BY <1>7 DEF i

LEMMA DoesFree ==
  ASSUME NEW a, NEW m \in Mutex, NEW h \in SUBSET Mutex, NEW p \in BOOLEAN,
         m \in h, ScanSafe(a, h)
  PROVE  Does(a, <<<<"free", m>>>>, h, p, h \ {m}, p)
<1> DEFINE i == <<"free", m>>
           s == Calm(h, p)
           t == Calm(h \ {m}, p)
<1>1. i \in Instruction /\ i[1] = "free" /\ i[2] = m
  BY DEF Instruction
<1>2. Whole2(s) /\ s.held = h /\ s.plain = p /\ t.ref = {} /\ RefKept(s, t)
  BY CalmFacts
<1>3. t = State(s.held \ {m}, {}, FALSE, s.plain, t.ref)
  BY <1>2 DEF Calm
<1> HIDE DEF i, s, t
<1>4. LeadsFree(i[2], s, t)
  BY <1>1, <1>2, <1>3 DEF LeadsFree
<1>5. Leads(a, i, s, t)
  BY <1>1, <1>2, <1>4 DEF Leads
<1>6. h \ {m} \in SUBSET Mutex
  OBVIOUS
<1>7. Does(a, <<i>>, h, p, h \ {m}, p)
  BY <1>5, <1>6, DoesOne DEF s, t
<1> QED
  BY <1>7 DEF i

LEMMA DoesUnlock ==
  ASSUME NEW a, NEW h \in SUBSET Mutex, NEW p \in BOOLEAN, ScanSafe(a, h)
  PROVE  Does(a, Unlock, h, p, h \ Stripes, p)
<1> DEFINE i == <<"unlock">>
           s == Calm(h, p)
           t == Calm(h \ Stripes, p)
<1>1. i \in Instruction /\ i[1] = "unlock"
  BY DEF Instruction
<1>2. Whole2(s) /\ s.held = h /\ s.plain = p /\ t.ref = {} /\ RefKept(s, t)
  BY CalmFacts
<1>3. t = State(s.held \ Stripes, {}, FALSE, s.plain, t.ref)
  BY <1>2 DEF Calm
<1> HIDE DEF i, s, t
<1>4. LeadsUnlock(s, t)
  BY <1>2, <1>3 DEF LeadsUnlock
<1>5. Leads(a, i, s, t)
  BY <1>1, <1>2, <1>4 DEF Leads
<1>6. h \ Stripes \in SUBSET Mutex
  OBVIOUS
<1>7. Does(a, <<i>>, h, p, h \ Stripes, p)
  BY <1>5, <1>6, DoesOne DEF s, t
<1> QED
  BY <1>7 DEF i, Unlock

(* The two words one after the other; afterwards the top of the stack may   *)
(* be known to be no reference.                                             *)
LEMMA DoesMove ==
  ASSUME NEW a, NEW to \in Loc, NEW from \in Loc, NEW h \in SUBSET Mutex,
         NEW p \in BOOLEAN, NEW q \in BOOLEAN, q => Kept(a, p, to, from),
         MayMove(a, p, to, from, h), MayMove(a, q, to, from, h), ScanSafe(a, h)
  PROVE  Does(a, Move(to, from), h, p, h, q)
<1> DEFINE i == <<"type", to, from>>
           k == <<"data", to, from>>
           s == Calm(h, p)
           u == State(h, Mid(a, to, from), FALSE, q, {})
           t == Calm(h, q)
<1>1. /\ i \in Instruction /\ i[1] = "type" /\ i[2] = to /\ i[3] = from
      /\ k \in Instruction /\ k[1] = "data" /\ k[2] = to /\ k[3] = from
  BY DEF Instruction
<1>2. /\ s \in States /\ s.held = h /\ s.plain = p /\ Whole2(s)
      /\ t \in States
  BY CalmFacts
<1>3. /\ u \in States /\ u.held = h /\ u.mid = Mid(a, to, from) /\ u.half = FALSE
      /\ u.plain = q
  <2>1. Mid(a, to, from) \in SUBSET (Loc \X Loc)
    BY DEF Mid
  <2> QED
    BY <2>1 DEF State, States
<1>4. u = State(s.held, Mid(a, to, from), FALSE, u.plain, {})
  BY <1>2, <1>3
<1>5. t = State(u.held, {}, FALSE, u.plain, {})
  BY <1>3 DEF Calm
<1>6. Move(to, from) = <<i>> \o <<k>>
  BY DEF Move
<1> HIDE DEF i, k, s, u, t
<1>7. LeadsType(a, to, from, s, u)
  BY <1>2, <1>3, <1>4 DEF LeadsType
<1>8. LeadsData(a, to, from, u, t)
  BY <1>3, <1>5 DEF LeadsData
<1>9. Leads(a, i, s, u)
  BY <1>1, <1>2, <1>7 DEF Leads
<1>10. Leads(a, k, u, t)
  BY <1>1, <1>3, <1>8 DEF Leads
<1>11. Runs(a, <<i>>, s, u) /\ Runs(a, <<k>>, u, t)
  BY <1>2, <1>3, <1>9, <1>10, RunsOne
<1>12. Runs(a, <<i>> \o <<k>>, s, t)
  BY <1>11, RunsThen
<1> QED
  BY <1>6, <1>12 DEF Does, s, t

(* The type of an element, or of the top of the stack.                      *)
LEMMA DoesPutType ==
  ASSUME NEW a, NEW l \in Loc, NEW w \in Scalar, NEW h \in SUBSET Mutex,
         NEW p \in BOOLEAN, NEW q \in BOOLEAN, l \in Elem \cup {a},
         MayWrite(a, l, h), q => l = a \/ p, ScanSafe(a, h)
  PROVE  Does(a, <<<<"put", "type", l, w>>>>, h, p, h, q)
<1> DEFINE i == <<"put", "type", l, w>>
           s == Calm(h, p)
           t == Calm(h, q)
<1>1. i \in Instruction
  BY DEF Instruction, Type
<1>2. i[1] = "put" /\ i[2] = "type" /\ i[3] = l /\ i[4] = w
  OBVIOUS
<1>3. Whole2(s) /\ s.held = h /\ s.plain = p /\ t.plain = q
  BY CalmFacts
<1>4. t = State(s.held, {}, FALSE, t.plain, {})
  BY <1>3 DEF Calm
<1> HIDE DEF i, s, t
<1>5. LeadsPutType(a, l, w, s, t)
  BY <1>3, <1>4 DEF LeadsPutType
<1>6. Leads(a, i, s, t)
  BY <1>1, <1>2, <1>3, <1>5 DEF Leads
<1>7. Does(a, <<i>>, h, p, h, q)
  BY <1>6, DoesOne DEF s, t
<1> QED
  BY <1>7 DEF i

LEMMA DoesPutData ==
  ASSUME NEW m \in Mutator, NEW w \in Datum, NEW h \in SUBSET Mutex
  PROVE  Does(m, <<<<"put", "data", m, w>>>>, h, TRUE, h, TRUE)
<1> DEFINE i == <<"put", "data", m, w>>
           s == Calm(h, TRUE)
<1>1. i \in Instruction
  BY LocKinds DEF Instruction, Data
<1>2. i[1] = "put" /\ i[2] = "data" /\ i[3] = m /\ i[4] = w
  OBVIOUS
<1>3. Whole2(s) /\ s.held = h /\ s.plain = TRUE
  BY CalmFacts
<1>4. s = State(s.held, {}, FALSE, s.plain, {})
  BY <1>3 DEF Calm
<1>5. ScanSafe(m, h)
  BY LocKinds
<1> HIDE DEF i, s
<1>6. LeadsPutData(m, m, w, s, s)
  BY <1>3, <1>4 DEF LeadsPutData, Whole2
<1>7. Leads(m, i, s, s)
  BY <1>1, <1>2, <1>3, <1>5, <1>6 DEF Leads
<1>8. Does(m, <<i>>, h, TRUE, h, TRUE)
  BY <1>7, DoesOne DEF s
<1> QED
  BY <1>8 DEF i

(* A reference written word by word in the top of the stack (vref_new).     *)
LEMMA DoesRefer ==
  ASSUME NEW m \in Mutator, NEW c \in Cell, NEW h \in SUBSET Mutex,
         NEW p \in BOOLEAN, Vref \in h
  PROVE  Does(m, <<<<"put", "type", m, "ref">>, <<"put", "data", m, c>>>>,
              h, p, h, FALSE)
<1> DEFINE i == <<"put", "type", m, "ref">>
           k == <<"put", "data", m, c>>
           s == Calm(h, p)
           u == State(h, {}, TRUE, FALSE, {})
           t == Calm(h, FALSE)
<1>1. i \in Instruction /\ k \in Instruction
  BY LocKinds DEF Instruction, Data, Type
<1>2. /\ i[1] = "put" /\ i[2] = "type" /\ i[3] = m /\ i[4] = "ref"
      /\ k[1] = "put" /\ k[2] = "data" /\ k[3] = m /\ k[4] = c
  OBVIOUS
<1>3. /\ s \in States /\ s.held = h /\ Whole2(s)
      /\ t \in States
  BY CalmFacts
<1>4. /\ u \in States /\ u.held = h /\ u.mid = {} /\ u.half = TRUE
  BY DEF State, States
<1>5. u = State(s.held, {}, TRUE, FALSE, {}) /\ t = State(u.held, {}, FALSE, FALSE, {})
  BY <1>3, <1>4 DEF Calm
<1>6. ScanSafe(m, h)
  BY LocKinds
<1>7. <<i, k>> = <<i>> \o <<k>>
  OBVIOUS
<1> HIDE DEF i, k, s, u, t
<1>8. LeadsPutType(m, m, "ref", s, u)
  BY <1>3, <1>5 DEF LeadsPutType
<1>9. LeadsPutData(m, m, c, u, t)
  BY <1>4, <1>5 DEF LeadsPutData
<1>10. Leads(m, i, s, u)
  BY <1>1, <1>2, <1>3, <1>6, <1>8 DEF Leads
<1>11. Leads(m, k, u, t)
  BY <1>1, <1>2, <1>4, <1>6, <1>9 DEF Leads
<1>12. Runs(m, <<i>>, s, u) /\ Runs(m, <<k>>, u, t)
  BY <1>3, <1>4, <1>10, <1>11, RunsOne
<1>13. Runs(m, <<i>> \o <<k>>, s, t)
  BY <1>12, RunsThen
<1>14. Runs(m, <<i, k>>, s, t)
  BY <1>7, <1>13
<1> QED
  BY <1>14 DEF Does, s, t, i, k

LEMMA DoesTest ==
  ASSUME NEW a, NEW how \in Accesses, NEW v \in Loc, NEW h \in SUBSET Mutex,
         NEW p \in BOOLEAN, MayTest(a, how, v, p, h), ScanSafe(a, h)
  PROVE  Does(a, <<<<"test", how, v>>>>, h, p, Left(how, h), Still(how))
<1> DEFINE i == <<"test", how, v>>
           s == Calm(h, p)
           t == Calm(Left(how, h), Still(how))
<1>1. i \in Instruction
  BY DEF Instruction
<1>2. i[1] = "test" /\ i[2] = how /\ i[3] = v
  OBVIOUS
<1>3. Whole2(s) /\ s.held = h /\ s.plain = p
  BY CalmFacts
<1>4. t = Calm(Left(how, s.held), Still(how))
  BY <1>3
<1>5. Left(how, h) \in SUBSET Mutex /\ Still(how) \in BOOLEAN
  BY DEF Left, Still
<1> HIDE DEF i, s, t
<1>6. LeadsTest(a, how, v, s, t)
  BY <1>3, <1>4 DEF LeadsTest
<1>7. Leads(a, i, s, t)
  BY <1>1, <1>2, <1>3, <1>6 DEF Leads
<1>8. Does(a, <<i>>, h, p, Left(how, h), Still(how))
  BY <1>5, <1>7, DoesOne DEF s, t
<1> QED
  BY <1>8 DEF i

LEMMA DoesCapture ==
  ASSUME NEW m \in Mutator, NEW v \in Var, NEW p \in BOOLEAN
  PROVE  Does(m, <<<<"capture", v>>>>, {}, p, {}, FALSE)
<1> DEFINE i == <<"capture", v>>
           s == Calm({}, p)
           t == Calm({}, FALSE)
<1>1. i \in Instruction
  BY DEF Instruction
<1>2. i[1] = "capture"
  OBVIOUS
<1>3. Whole2(s) /\ s.held = {} /\ ScanSafe(m, {})
  BY CalmFacts, LocKinds
<1>4. LeadsCapture(m, s, t)
  BY <1>3 DEF LeadsCapture
<1> HIDE DEF i, s, t
<1>5. Leads(m, i, s, t)
  BY <1>1, <1>2, <1>3, <1>4 DEF Leads
<1>6. Does(m, <<i>>, {}, p, {}, FALSE)
  BY <1>5, DoesOne DEF s, t
<1> QED
  BY <1>6 DEF i

LEMMA DoesTake ==
  ASSUME NEW m \in Mutator
  PROVE  Does(m, <<<<"take">>>>, {Vref}, TRUE, {}, FALSE)
<1> DEFINE i == <<"take">>
           s == Calm({Vref}, TRUE)
           t == Calm({}, FALSE)
<1>1. i \in Instruction
  BY DEF Instruction
<1>2. i[1] = "take"
  OBVIOUS
<1>3. Whole2(s) /\ s.held = {Vref} /\ s.plain = TRUE /\ ScanSafe(m, {Vref})
      /\ {Vref} \in SUBSET Mutex
  BY CalmFacts, LocKinds, Kinds
<1>4. LeadsTake(m, s, t)
  BY <1>3 DEF LeadsTake
<1> HIDE DEF i, s, t
<1>5. Leads(m, i, s, t)
  BY <1>1, <1>2, <1>3, <1>4 DEF Leads
<1>6. Does(m, <<i>>, {Vref}, TRUE, {}, FALSE)
  BY <1>3, <1>5, DoesOne DEF s, t
<1> QED
  BY <1>6 DEF i

LEMMA DoesScanAndVisit ==
  ASSUME NEW h \in SUBSET Mutex, NEW how \in {"shade", "mark"}, NEW o \in Arr,
         ScanSafe(Collector, h),
         IF how = "mark" THEN Values \subseteq h ELSE h \cap (Values \cup Tables) = {}
  PROVE  /\ Does(Collector, <<<<"visit", how, o>>>>, h, FALSE, h, FALSE)
         /\ how = "mark" => Does(Collector, <<<<"scan">>>>, h, FALSE, h, FALSE)
<1> DEFINE i == <<"visit", how, o>>
           k == <<"scan">>
           s == Calm(h, FALSE)
<1>1. i \in Instruction /\ k \in Instruction
  BY DEF Instruction
<1>2. i[1] = "visit" /\ i[2] = how /\ k[1] = "scan"
  OBVIOUS
<1>3. Whole2(s) /\ s.held = h /\ s = Calm(s.held, FALSE)
  BY CalmFacts
<1> HIDE DEF i, k, s
<1>4. LeadsVisit(Collector, how, s, s)
  BY <1>3 DEF LeadsVisit
<1>5. Leads(Collector, i, s, s)
  BY <1>1, <1>2, <1>3, <1>4 DEF Leads
<1>6. how = "mark" => Leads(Collector, k, s, s)
  <2>1. how = "mark" => LeadsScan(Collector, s, s)
    BY <1>3 DEF LeadsScan
  <2> QED
    BY <1>1, <1>2, <1>3, <2>1 DEF Leads
<1>7. Does(Collector, <<i>>, h, FALSE, h, FALSE)
  BY <1>5, DoesOne DEF s
<1>8. how = "mark" => Does(Collector, <<k>>, h, FALSE, h, FALSE)
  BY <1>6, DoesOne DEF s
<1> QED
  BY <1>7, <1>8 DEF i, k

(* Of the value mutexes the first j.                                        *)
First(j) == {m \in Values : m[2] < j}

LEMMA FirstGrows ==
  /\ First(0) = {} /\ First(PRIME+1) = Values
  /\ \A j \in 0..PRIME : /\ First(j+1) = First(j) \cup {<<"value", j>>}
                         /\ <<"value", j>> \in Mutex \ First(j)
                         /\ First(j) # {} => Zero \in First(j)
<1>1. PRIME \in Nat \ {0}
  BY StripeAssumption
<1>2. \A m \in Values : m[1] = "value" /\ m[2] \in 0..PRIME /\ m = <<"value", m[2]>>
  BY <1>1 DEF Values, Zero, Stripes
<1>3. \A j \in 0..PRIME : /\ <<"value", j>> \in Values /\ <<"value", j>> \in Mutex
                          /\ <<"value", j>>[2] = j
  BY <1>1 DEF Values, Zero, Stripes, Mutex
<1>4. First(0) = {} /\ First(PRIME+1) = Values
  BY <1>1, <1>2 DEF First
<1>5. ASSUME NEW j \in 0..PRIME
      PROVE  /\ First(j+1) = First(j) \cup {<<"value", j>>}
             /\ <<"value", j>> \in Mutex \ First(j)
             /\ First(j) # {} => Zero \in First(j)
  <2>1. \A m \in Values : m[2] < j+1 <=> m[2] < j \/ m = <<"value", j>>
    BY <1>2, <1>3, <1>1
  <2>2. First(j+1) = First(j) \cup {<<"value", j>>}
    BY <2>1, <1>3 DEF First
  <2>3. <<"value", j>> \notin First(j)
    BY <1>3 DEF First
  <2>4. First(j) # {} => 0 < j
    BY <1>1, <1>2 DEF First
  <2>5. Zero \in Values /\ Zero[2] = 0
    BY DEF Values, Zero
  <2> QED
    BY <1>3, <2>2, <2>3, <2>4, <2>5 DEF First
<1> QED
  BY <1>4, <1>5

LEMMA DoesLockAll == Does(Collector, LockAll, {}, FALSE, Values, FALSE)
<1> DEFINE H == [j \in 1..PRIME+2 |-> Calm(First(j-1), FALSE)]
<1>1. PRIME \in Nat \ {0}
  BY StripeAssumption
<1>2. /\ LockAll \in Seq(Instruction) /\ Len(LockAll) = PRIME+1
      /\ \A j \in 1..PRIME+1 : LockAll[j] = <<"lock", <<"value", j-1>>>>
  <2>1. \A j \in 1..PRIME+1 : <<"lock", <<"value", j-1>>>> \in Instruction
    BY <1>1 DEF Instruction, Mutex
  <2> QED
    BY <1>1, <2>1 DEF LockAll
<1>3. H \in [1..PRIME+2 -> States]
  BY Kinds, CalmFacts DEF First
<1>4. /\ H[1] = Calm({}, FALSE)
      /\ H[PRIME+2] = Calm(Values, FALSE)
  <2>1. ASSUME NEW j \in 1..PRIME+2, NEW k \in 0..PRIME+1, k = j-1
        PROVE  H[j] = Calm(First(k), FALSE)
    BY <2>1
  <2> HIDE DEF H
  <2>2. /\ 1 \in 1..PRIME+2 /\ 0 \in 0..PRIME+1 /\ 0 = 1-1
        /\ PRIME+2 \in 1..PRIME+2 /\ PRIME+1 \in 0..PRIME+1 /\ PRIME+1 = (PRIME+2)-1
    BY <1>1
  <2>3. H[1] = Calm(First(0), FALSE) /\ H[PRIME+2] = Calm(First(PRIME+1), FALSE)
    BY <2>1, <2>2
  <2>4. Values \ {} = Values /\ Values \ Values = {}
    OBVIOUS
  <2> QED
    BY <2>3, <2>4, FirstGrows, Zenon
<1>5. ASSUME NEW j \in 1..PRIME+1
      PROVE  Leads(Collector, LockAll[j], H[j], H[j+1])
  <2>1. PICK k \in 0..PRIME : k = j-1
    BY <1>1
  <2> DEFINE h == First(k)
             m == <<"value", k>>
  <2>2. H[j] = Calm(h, FALSE) /\ H[j+1] = Calm(First(k+1), FALSE)
    <3>1. ASSUME NEW n \in 1..PRIME+2, NEW g \in 0..PRIME+1, g = n-1
          PROVE  H[n] = Calm(First(g), FALSE)
      BY <3>1
    <3>2. /\ j \in 1..PRIME+2 /\ k \in 0..PRIME+1 /\ k = j-1
          /\ j+1 \in 1..PRIME+2 /\ k+1 \in 0..PRIME+1 /\ k+1 = (j+1)-1
      BY <1>1, <2>1
    <3> HIDE DEF H
    <3> QED
      BY <3>1, <3>2
  <2>3. First(k+1) = h \cup {m} /\ m \in Mutex \ h /\ (h # {} => Zero \in h)
    BY FirstGrows
  <2>4. ~(Tables \subseteq h)
    BY Kinds DEF Tables, First
  <2>5. LockAll[j] = <<"lock", m>> /\ <<"lock", m>> \in Instruction
    BY <1>2, <2>1, <2>3 DEF Instruction
  <2>6. <<"lock", m>>[1] = "lock" /\ <<"lock", m>>[2] = m /\ m[1] = "value"
    OBVIOUS
  <2>7. h \in SUBSET Mutex /\ h \cup {m} \in SUBSET Mutex
    BY <2>3, Kinds DEF First
  <2> HIDE DEF h, m, H
  <2>8. MayLock(Collector, m, h)
    BY <2>3, <2>6, NameAssumption DEF MayLock
  <2>9. ScanSafe(Collector, h)
    BY <2>4 DEF ScanSafe
  <2> DEFINE i == <<"lock", m>>
             s == Calm(h, FALSE)
             t == Calm(h \cup {m}, FALSE)
  <2>10. Whole2(s) /\ s.held = h /\ s.plain = FALSE /\ t.ref = {} /\ RefKept(s, t)
    BY <2>7, CalmFacts
  <2>11. t = State(s.held \cup {m}, {}, FALSE, s.plain, t.ref)
    BY <2>10 DEF Calm
  <2> HIDE DEF i, s, t
  <2>12. LeadsLock(Collector, m, s, t)
    BY <2>8, <2>10, <2>11 DEF LeadsLock
  <2>13. Leads(Collector, i, s, t)
    BY <2>5, <2>6, <2>9, <2>10, <2>12 DEF Leads, i
  <2> QED
    BY <2>2, <2>3, <2>5, <2>13 DEF i, s, t
<1> HIDE DEF H
<1>6. PRIME+1+1 = PRIME+2
  BY <1>1
<1>7. Runs(Collector, LockAll, H[1], H[PRIME+2])
  BY <1>2, <1>3, <1>5, <1>6 DEF Runs
<1> QED
  BY <1>4, <1>7 DEF Does

LEMMA DoesFreeAll == Does(Collector, FreeAll, Values, FALSE, {}, FALSE)
<1> DEFINE H == [j \in 1..PRIME+2 |-> Calm(Values \ First(j-1), FALSE)]
<1>1. PRIME \in Nat \ {0}
  BY StripeAssumption
<1>2. /\ FreeAll \in Seq(Instruction) /\ Len(FreeAll) = PRIME+1
      /\ \A j \in 1..PRIME+1 : FreeAll[j] = <<"free", <<"value", j-1>>>>
  <2>1. \A j \in 1..PRIME+1 : <<"free", <<"value", j-1>>>> \in Instruction
    BY <1>1 DEF Instruction, Mutex
  <2> QED
    BY <1>1, <2>1 DEF FreeAll
<1>3. H \in [1..PRIME+2 -> States]
  BY Kinds, CalmFacts
<1>4. /\ H[1] = Calm(Values, FALSE)
      /\ H[PRIME+2] = Calm({}, FALSE)
  <2>1. ASSUME NEW j \in 1..PRIME+2, NEW k \in 0..PRIME+1, k = j-1
        PROVE  H[j] = Calm(Values \ First(k), FALSE)
    BY <2>1
  <2> HIDE DEF H
  <2>2. /\ 1 \in 1..PRIME+2 /\ 0 \in 0..PRIME+1 /\ 0 = 1-1
        /\ PRIME+2 \in 1..PRIME+2 /\ PRIME+1 \in 0..PRIME+1 /\ PRIME+1 = (PRIME+2)-1
    BY <1>1
  <2>3. H[1] = Calm(Values \ First(0), FALSE) /\ H[PRIME+2] = Calm(Values \ First(PRIME+1), FALSE)
    BY <2>1, <2>2
  <2>4. Values \ {} = Values /\ Values \ Values = {}
    OBVIOUS
  <2> QED
    BY <2>3, <2>4, FirstGrows, Zenon
<1>5. ASSUME NEW j \in 1..PRIME+1
      PROVE  Leads(Collector, FreeAll[j], H[j], H[j+1])
  <2>1. PICK k \in 0..PRIME : k = j-1
    BY <1>1
  <2> DEFINE h == Values \ First(k)
             m == <<"value", k>>
  <2>2. /\ H[j] = Calm(h, FALSE)
        /\ H[j+1] = Calm(Values \ First(k+1), FALSE)
    <3>1. ASSUME NEW n \in 1..PRIME+2, NEW g \in 0..PRIME+1, g = n-1
          PROVE  H[n] = Calm(Values \ First(g), FALSE)
      BY <3>1
    <3>2. /\ j \in 1..PRIME+2 /\ k \in 0..PRIME+1 /\ k = j-1
          /\ j+1 \in 1..PRIME+2 /\ k+1 \in 0..PRIME+1 /\ k+1 = (j+1)-1
      BY <1>1, <2>1
    <3> HIDE DEF H
    <3> QED
      BY <3>1, <3>2
  <2>3. Values \ First(k+1) = h \ {m} /\ m \in Mutex /\ m \in h
    <3>1. m \in Values
      BY <1>1 DEF Values, Zero, Stripes
    <3> QED
      BY <3>1, FirstGrows
  <2>4. ~(Tables \subseteq h)
    BY Kinds DEF Tables
  <2>5. FreeAll[j] = <<"free", m>> /\ <<"free", m>> \in Instruction
    BY <1>2, <2>1, <2>3 DEF Instruction
  <2>6. <<"free", m>>[1] = "free" /\ <<"free", m>>[2] = m
    OBVIOUS
  <2>7. h \in SUBSET Mutex /\ h \ {m} \in SUBSET Mutex
    BY <2>3, Kinds DEF First
  <2> HIDE DEF h, m, H
  <2>9. ScanSafe(Collector, h)
    BY <2>4 DEF ScanSafe
  <2> DEFINE i == <<"free", m>>
             s == Calm(h, FALSE)
             t == Calm(h \ {m}, FALSE)
  <2>10. Whole2(s) /\ s.held = h /\ s.plain = FALSE /\ t.ref = {} /\ RefKept(s, t)
    BY <2>7, CalmFacts
  <2>11. t = State(s.held \ {m}, {}, FALSE, s.plain, t.ref)
    BY <2>10 DEF Calm
  <2> HIDE DEF i, s, t
  <2>12. LeadsFree(m, s, t)
    BY <2>3, <2>10, <2>11 DEF LeadsFree
  <2>13. Leads(Collector, i, s, t)
    BY <2>5, <2>6, <2>9, <2>10, <2>12 DEF Leads, i
  <2> QED
    BY <2>2, <2>3, <2>5, <2>13 DEF i, s, t
<1> HIDE DEF H
<1>6. PRIME+1+1 = PRIME+2
  BY <1>1
<1>7. Runs(Collector, FreeAll, H[1], H[PRIME+2])
  BY <1>2, <1>3, <1>5, <1>6 DEF Runs
<1> QED
  BY <1>4, <1>7 DEF Does
-----------------------------------------------------------------------------
(* The operations of the program.                                           *)

LEMMA TakesZero ==
  ASSUME NEW m \in Mutator, NEW p \in BOOLEAN, NEW h \in SUBSET Mutex,
         h \cap Values = {}, h # {} => "asort" \in Ops
  PROVE  Does(m, Lock0, h, p, h \cup {Zero}, p)
<1>1. MayLock(m, Zero, h)
  BY Kinds DEF MayLock, Values
<1> QED
  BY <1>1, Kinds, LocKinds, DoesLock DEF Lock0, Zero

(* One mutex beside the others, with mutex 0.                               *)
LEMMA TakesMore ==
  ASSUME NEW a, NEW p \in BOOLEAN, NEW l \in Hashed, NEW h \in SUBSET Mutex,
         Key(l) \notin h, Zero \in h, ScanSafe(a, h)
  PROVE  Does(a, Lock(l), h, p, h \cup {Key(l)}, p)
<1>1. MayLock(a, Key(l), h)
  BY DEF MayLock, Key
<1>2. Key(l) \in Mutex
  BY Kinds
<1>3. Does(a, <<<<"lock", Key(l)>>>>, h, p, h \cup {Key(l)}, p)
  BY <1>1, <1>2, DoesLock
<1> QED
  BY <1>3 DEF Lock, Key

(* A mutex on its own.                                                      *)
LEMMA AloneRuns ==
  ASSUME NEW m \in Mutator, NEW p \in BOOLEAN, NEW x \in Mutex
  PROVE  /\ Does(m, <<<<"lock", x>>>>, {}, p, {x}, p)
         /\ Does(m, <<<<"free", x>>>>, {x}, p, {}, p)
<1>1. {} \cup {x} = {x} /\ {x} \ {x} = {} /\ {} \in SUBSET Mutex /\ {x} \in SUBSET Mutex
  OBVIOUS
<1>2. MayLock(m, x, {})
  BY DEF MayLock
<1>3. Does(m, <<<<"lock", x>>>>, {}, p, {} \cup {x}, p)
  BY <1>1, <1>2, LocKinds, DoesLock
<1>4. Does(m, <<<<"free", x>>>>, {x}, p, {x} \ {x}, p)
  BY <1>1, LocKinds, DoesFree
<1> QED
  BY <1>1, <1>3, <1>4

LEMMA TakesOne ==
  ASSUME NEW m \in Mutator, NEW p \in BOOLEAN, NEW l \in Hashed
  PROVE  Does(m, Lock(l), {}, p, {Key(l)}, p)
BY Kinds, AloneRuns DEF Lock, Key

LEMMA UnlocksAll ==
  ASSUME NEW m \in Mutator, NEW p \in BOOLEAN, NEW h \in SUBSET Stripes
  PROVE  Does(m, Unlock, h, p, {}, p)
<1>1. h \ Stripes = {} /\ h \in SUBSET Mutex
  BY Kinds
<1>2. Does(m, Unlock, h, p, h \ Stripes, p)
  BY <1>1, LocKinds, DoesUnlock
<1> QED
  BY <1>1, <1>2

LEMMA MarkAlone ==
  ASSUME NEW m \in Mutator, NEW p \in BOOLEAN, NEW e \in Elem
  PROVE  /\ Does(m, MarkLock(ArrOf[e]), {}, p, {MarkKey(ArrOf[e])}, p)
         /\ Does(m, MarkFree(ArrOf[e]), {MarkKey(ArrOf[e])}, p, {}, p)
<1>1. MarkKey(ArrOf[e]) \in Mutex
  BY Kinds, LocKinds
<1> QED
  BY <1>1, AloneRuns DEF MarkLock, MarkFree, MarkKey

LEMMA PushRuns ==
  ASSUME NEW m \in Mutator, NEW v \in Var \cup Elem \cup Cell, NEW p \in BOOLEAN
  PROVE  Does(m, PUSH(m, v), {}, p, {}, FALSE)
<1> DEFINE x == Key(v)
<1>1. x \in Stripes /\ {x} \in SUBSET Stripes /\ v \in Hashed /\ v \in Loc /\ m \in Loc
  BY Kinds, LocKinds
<1>2. Does(m, Lock(v), {}, p, {x}, p)
  BY <1>1, TakesOne
<1>3. MayMove(m, p, m, v, {x}) /\ MayMove(m, FALSE, m, v, {x})
  BY <1>1, LocKinds DEF MayMove, MayWrite, MayRead, Never
<1>4. {x} \in SUBSET Mutex /\ ScanSafe(m, {x}) /\ FALSE \in BOOLEAN
  BY <1>1, Kinds, LocKinds
<1> HIDE DEF x
<1>5. Does(m, Move(m, v), {x}, p, {x}, FALSE)
  BY <1>1, <1>3, <1>4, DoesMove
<1>6. Does(m, Unlock, {x}, FALSE, {}, FALSE)
  BY <1>1, UnlocksAll
<1>7. Does(m, Lock(v) \o Move(m, v), {}, p, {x}, FALSE)
  BY <1>2, <1>5, DoesThen
<1> QED
  BY <1>6, <1>7, DoesThen DEF PUSH

(* push_symbol loads, also the elements asort compares; assign stores.      *)
LEMMA SymbolRuns ==
  ASSUME NEW m \in Mutator, NEW how \in {"load", "store"}, NEW v \in Var \cup Elem,
         NEW h \in SUBSET Mutex, NEW p \in BOOLEAN,
         h \cap Values = {}, h # {} => "asort" \in Ops,
         how = "store" => p /\ v \in Var
  PROVE  Does(m, Lock0 \o Lock(v) \o <<<<"test", how, v>>>>, h, p, h, Still(how))
<1> DEFINE x == Key(v)
           g == h \cup {Zero}
           k == g \cup {x}
<1>1. /\ x \in Stripes /\ x \in Mutex /\ v \in Hashed /\ v \in Loc /\ Zero \in Mutex
      /\ how \in Accesses
  BY Kinds, LocKinds DEF Accesses
<1>2. Does(m, Lock0, h, p, g, p)
  BY TakesZero
<1>3. x \notin g /\ Zero \in g /\ g \in SUBSET Mutex /\ k \in SUBSET Mutex
  BY <1>1, Kinds DEF Values
<1>4. ScanSafe(m, g) /\ ScanSafe(m, k)
  BY LocKinds
<1>5. k \cap Values = {Zero, x} /\ k \ Values = h
  BY <1>1 DEF Values
<1> HIDE DEF g
<1>6. Does(m, Lock(v), g, p, k, p)
  BY <1>1, <1>3, <1>4, TakesMore
<1> HIDE DEF k
<1>7. MayTest(m, how, v, p, k)
  BY <1>5 DEF MayTest
<1>8. Left(how, k) = h
  BY <1>5 DEF Left
<1> HIDE DEF x
<1>9. Does(m, <<<<"test", how, v>>>>, k, p, Left(how, k), Still(how))
  BY <1>1, <1>3, <1>4, <1>7, DoesTest
<1>10. Does(m, <<<<"test", how, v>>>>, k, p, h, Still(how))
  BY <1>8, <1>9
<1>11. Does(m, Lock0 \o Lock(v), h, p, k, p)
  BY <1>2, <1>6, DoesThen
<1> QED
  BY <1>10, <1>11, DoesThen

(* What is stored in an element is no reference.                            *)
LEMMA StoreRuns ==
  ASSUME NEW m \in Mutator, NEW e \in Elem
  PROVE  /\ Does(m, Lock(e) \o Move(e, m), {}, TRUE, {Key(e)}, TRUE)
         /\ Does(m, assign2(m, e), {}, TRUE, {}, TRUE)
         /\ Does(m, method(m, e), {}, TRUE, {}, FALSE)
<1> DEFINE x == Key(e)
<1>1. x \in Stripes /\ {x} \in SUBSET Stripes /\ e \in Hashed /\ e \in Loc /\ m \in Loc
  BY Kinds, LocKinds
<1>2. Does(m, Lock(e), {}, TRUE, {x}, TRUE)
  BY <1>1, TakesOne
<1>3. MayMove(m, TRUE, e, m, {x}) /\ Kept(m, TRUE, e, m)
  BY <1>1, LocKinds DEF MayMove, MayWrite, MayRead, Never, Referring, Kept
<1>4. MayMove(m, TRUE, m, e, {x}) /\ MayMove(m, FALSE, m, e, {x})
  BY <1>1, LocKinds DEF MayMove, MayWrite, MayRead, Never
<1>5. {x} \in SUBSET Mutex /\ ScanSafe(m, {x}) /\ FALSE \in BOOLEAN /\ TRUE \in BOOLEAN
  BY <1>1, Kinds, LocKinds
<1> HIDE DEF x
<1>6. Does(m, Move(e, m), {x}, TRUE, {x}, TRUE)
  BY <1>1, <1>3, <1>5, DoesMove
<1>7. Does(m, Move(m, e), {x}, TRUE, {x}, FALSE)
  BY <1>1, <1>4, <1>5, DoesMove
<1>8. Does(m, Unlock, {x}, TRUE, {}, TRUE) /\ Does(m, Unlock, {x}, FALSE, {}, FALSE)
  BY <1>1, <1>5, UnlocksAll
<1>9. Does(m, Lock(e) \o Move(e, m), {}, TRUE, {x}, TRUE)
  BY <1>2, <1>6, DoesThen
<1>10. Does(m, assign2(m, e), {}, TRUE, {}, TRUE)
  BY <1>8, <1>9, DoesThen DEF assign2
<1>11. Does(m, Lock(e) \o Move(e, m) \o Move(m, e), {}, TRUE, {x}, FALSE)
  BY <1>7, <1>9, DoesThen
<1>12. Does(m, method(m, e), {}, TRUE, {}, FALSE)
  BY <1>8, <1>11, DoesThen DEF method
<1> QED
  BY <1>9, <1>10, <1>12 DEF x

(* Both mutexes, however the addresses are ordered.                         *)
LEMMA PairRuns ==
  ASSUME NEW m \in Mutator, NEW p \in BOOLEAN, NEW l \in Hashed, NEW k \in Hashed
  PROVE  Does(m, LockPair(l, k), {}, p, {Key(l), Key(k)}, p)
<1> DEFINE x == Key(l)
           y == Key(k)
<1>1. x \in Stripes /\ y \in Stripes /\ x \in Mutex /\ y \in Mutex /\ m \in Actor
  BY Kinds, LocKinds
<1>2. Zero \in Mutex /\ Zero \notin Stripes /\ \A h : ScanSafe(m, h)
  BY Kinds, LocKinds
<1>3. CASE Stripe[l] = Stripe[k]
  <2>1. {x, y} = {x}
    BY <1>3 DEF Key
  <2> HIDE DEF x, y
  <2>2. Does(m, Lock(l), {}, p, {x}, p)
    BY <1>1, TakesOne DEF x
  <2> QED
    BY <1>3, <2>1, <2>2 DEF LockPair, x, y
<1>4. CASE Stripe[l] # Stripe[k]
  <2>1. x # y
    BY <1>4 DEF Key
  <2> HIDE DEF x, y
  <2>2. Does(m, Lock0, {}, p, {Zero}, p)
    <3>1. {} \cup {Zero} = {Zero} /\ {} \cap Values = {}
      OBVIOUS
    <3>2. Does(m, Lock0, {}, p, {} \cup {Zero}, p)
      BY <3>1, TakesZero
    <3> QED
      BY <3>1, <3>2
  <2>3. /\ {Zero} \in SUBSET Mutex /\ {Zero, x} \in SUBSET Mutex
        /\ {Zero, y} \in SUBSET Mutex /\ {Zero, x, y} \in SUBSET Mutex
        /\ {Zero} \cup {x} = {Zero, x} /\ {Zero} \cup {y} = {Zero, y}
        /\ {Zero, x} \cup {y} = {Zero, x, y} /\ {Zero, y} \cup {x} = {Zero, x, y}
        /\ {Zero, x, y} \ {Zero} = {x, y}
        /\ x \notin {Zero} /\ y \notin {Zero} /\ y \notin {Zero, x} /\ x \notin {Zero, y}
    BY <1>1, <1>2, <2>1
  <2>4. Does(m, Lock(l), {Zero}, p, {Zero, x}, p) /\ Does(m, Lock(k), {Zero}, p, {Zero, y}, p)
    <3>1. /\ Does(m, Lock(l), {Zero}, p, {Zero} \cup {x}, p)
          /\ Does(m, Lock(k), {Zero}, p, {Zero} \cup {y}, p)
      BY <1>1, <1>2, <2>3, TakesMore DEF x, y
    <3> QED
      BY <2>3, <3>1
  <2>5. Does(m, Lock(k), {Zero, x}, p, {Zero, x, y}, p)
    <3>1. Does(m, Lock(k), {Zero, x}, p, {Zero, x} \cup {y}, p)
      BY <1>1, <1>2, <2>3, TakesMore DEF y
    <3> QED
      BY <2>3, <3>1
  <2>6. Does(m, Lock(l), {Zero, y}, p, {Zero, x, y}, p)
    <3>1. Does(m, Lock(l), {Zero, y}, p, {Zero, y} \cup {x}, p)
      BY <1>1, <1>2, <2>3, TakesMore DEF x
    <3> QED
      BY <2>3, <3>1
  <2>7. Does(m, Free0, {Zero, x, y}, p, {x, y}, p)
    <3>1. Does(m, Free0, {Zero, x, y}, p, {Zero, x, y} \ {Zero}, p)
      BY <1>1, <1>2, <2>3, DoesFree DEF Free0, Zero
    <3> QED
      BY <2>3, <3>1
  <2> DEFINE two == IF Stripe[l] < Stripe[k] THEN Lock(l) \o Lock(k)
                                             ELSE Lock(k) \o Lock(l)
  <2>8. Does(m, two, {Zero}, p, {Zero, x, y}, p)
    <3>1. Does(m, Lock(l) \o Lock(k), {Zero}, p, {Zero, x, y}, p)
      BY <2>4, <2>5, DoesThen
    <3>2. Does(m, Lock(k) \o Lock(l), {Zero}, p, {Zero, x, y}, p)
      BY <2>4, <2>6, DoesThen
    <3> QED
      BY <3>1, <3>2
  <2>9. LockPair(l, k) = Lock0 \o two \o Free0
    BY <1>4 DEF LockPair
  <2> HIDE DEF two
  <2>10. Does(m, Lock0 \o two, {}, p, {Zero, x, y}, p)
    BY <2>2, <2>8, DoesThen
  <2>11. Does(m, Lock0 \o two \o Free0, {}, p, {x, y}, p)
    BY <2>7, <2>10, DoesThen
  <2> QED
    BY <2>9, <2>11 DEF x, y
<1> QED
  BY <1>3, <1>4

LEMMA CopyRuns ==
  ASSUME NEW m \in Mutator, NEW p \in BOOLEAN, NEW to \in Loc, NEW from \in Loc,
         (to = m /\ from \in Elem \cup {m}) \/ (to \in Var /\ from = m)
  PROVE  Does(m, copy(to, from), {}, p, {}, FALSE)
<1> DEFINE h == {Key(to), Key(from)}
<1>1. Key(to) \in Stripes /\ Key(from) \in Stripes /\ to \in Hashed /\ from \in Hashed
  BY Kinds, LocKinds
<1>2. Does(m, LockPair(to, from), {}, p, h, p)
  BY <1>1, PairRuns
<1>3. MayMove(m, p, to, from, h) /\ MayMove(m, FALSE, to, from, h)
  BY <1>1, LocKinds DEF MayMove, MayWrite, MayRead, Never
<1>4. h \in SUBSET Mutex /\ h \in SUBSET Stripes /\ ScanSafe(m, h) /\ FALSE \in BOOLEAN
  BY <1>1, Kinds, LocKinds
<1> HIDE DEF h
<1>5. Does(m, Move(to, from), h, p, h, FALSE)
  BY <1>3, <1>4, DoesMove
<1>6. Does(m, Unlock, h, FALSE, {}, FALSE)
  BY <1>4, UnlocksAll
<1>7. Does(m, LockPair(to, from) \o Move(to, from), {}, p, h, FALSE)
  BY <1>2, <1>5, DoesThen
<1> QED
  BY <1>6, <1>7, DoesThen DEF copy

(* Numbers and NIL are pushed whatever is held.                             *)
LEMMA NumberRuns ==
  ASSUME NEW m \in Mutator, NEW p \in BOOLEAN, NEW h \in SUBSET Mutex,
         NEW t \in Scalar, NEW d \in Datum
  PROVE  /\ Does(m, PUSHNIL(m, t), h, p, h, TRUE)
         /\ Does(m, number(m, t, d), h, p, h, TRUE)
<1>1. m \in Loc /\ m \in Elem \cup {m} /\ TRUE \in BOOLEAN /\ ScanSafe(m, h)
  BY LocKinds
<1>2. MayWrite(m, m, h)
  BY LocKinds DEF MayWrite
<1>3. Does(m, PUSHNIL(m, t), h, p, h, TRUE)
  BY <1>1, <1>2, DoesPutType DEF PUSHNIL
<1>4. Does(m, <<<<"put", "data", m, d>>>>, h, TRUE, h, TRUE)
  BY DoesPutData
<1> QED
  BY <1>3, <1>4, DoesThen DEF number

LEMMA NewRuns ==
  ASSUME NEW m \in Mutator, NEW p \in BOOLEAN, NEW t \in Scalar, NEW d \in Datum
  PROVE  Does(m, oref_new(m, t, d), {}, p, {}, TRUE)
<1> DEFINE x == <<"oref", 0>>
           n == number(m, t, d)
<1>1. x \in Mutex /\ TRUE \in BOOLEAN
  BY DEF Mutex
<1>2. oref_new(m, t, d) = <<<<"lock", x>>>> \o n \o <<<<"free", x>>>>
  BY DEF oref_new
<1> HIDE DEF x, n
<1>3. Does(m, <<<<"lock", x>>>>, {}, p, {x}, p)
  BY <1>1, AloneRuns
<1>4. Does(m, n, {x}, p, {x}, TRUE)
  <2>1. {x} \in SUBSET Mutex
    BY <1>1
  <2> QED
    BY <2>1, NumberRuns DEF n
<1>5. Does(m, <<<<"free", x>>>>, {x}, TRUE, {}, TRUE)
  BY <1>1, AloneRuns
<1>6. Does(m, <<<<"lock", x>>>> \o n, {}, p, {x}, TRUE)
  BY <1>3, <1>4, DoesThen
<1> QED
  BY <1>2, <1>5, <1>6, DoesThen

LEMMA CaptureRuns ==
  ASSUME NEW m \in Mutator, NEW v \in Var, NEW p \in BOOLEAN
  PROVE  Does(m, push_symbol_ref(m, v), {}, p, {}, FALSE)
<1>1. Does(m, PUSH(m, v), {}, p, {}, FALSE)
  BY PushRuns
<1>2. Does(m, <<<<"capture", v>>>>, {}, FALSE, {}, FALSE)
  BY DoesCapture
<1> QED
  BY <1>1, <1>2, DoesThen DEF push_symbol_ref

LEMMA AaddRuns ==
  ASSUME NEW m \in Mutator, NEW e \in Elem
  PROVE  Does(m, aadd(m, e), {}, TRUE, {}, FALSE)
<1> DEFINE x == MarkKey(ArrOf[e])
<1>1. {x} \in SUBSET Mutex /\ ScanSafe(m, {x}) /\ e \in Loc /\ m \in Loc
      /\ TRUE \in BOOLEAN
  BY Kinds, LocKinds
<1>2. /\ Does(m, MarkLock(ArrOf[e]), {}, TRUE, {x}, TRUE)
      /\ Does(m, MarkFree(ArrOf[e]), {x}, TRUE, {}, TRUE)
  BY <1>1, MarkAlone
<1>3. MayMove(m, TRUE, e, m, {x}) /\ Kept(m, TRUE, e, m)
  BY LocKinds DEF MayMove, MayWrite, MayRead, Never, Referring, Kept
<1> HIDE DEF x
<1>4. Does(m, Move(e, m), {x}, TRUE, {x}, TRUE)
  BY <1>1, <1>3, DoesMove
<1>5. Does(m, copy(m, m), {}, TRUE, {}, FALSE)
  BY <1>1, CopyRuns
<1>6. Does(m, MarkLock(ArrOf[e]) \o Move(e, m), {}, TRUE, {x}, TRUE)
  BY <1>2, <1>4, DoesThen
<1>7. Does(m, MarkLock(ArrOf[e]) \o Move(e, m) \o MarkFree(ArrOf[e]), {}, TRUE, {}, TRUE)
  BY <1>2, <1>6, DoesThen
<1> QED
  BY <1>5, <1>7, DoesThen DEF aadd

(* Elements of an array are moved and cleared under its mark mutex.         *)
LEMMA ElementRuns ==
  ASSUME NEW m \in Mutator, NEW e \in Elem, NEW f \in Elem, ArrOf[e] = ArrOf[f],
         NEW t \in Scalar, NEW p \in BOOLEAN
  PROVE  /\ Does(m, Move(e, f), {MarkKey(ArrOf[e])}, p, {MarkKey(ArrOf[e])}, p)
         /\ Does(m, <<<<"put", "type", f, t>>>>,
                 {MarkKey(ArrOf[e])}, p, {MarkKey(ArrOf[e])}, p)
<1> DEFINE x == MarkKey(ArrOf[e])
<1>1. /\ {x} \in SUBSET Mutex /\ ScanSafe(m, {x}) /\ e \in Loc /\ f \in Loc
      /\ f \in Elem \cup {m}
  BY Kinds, LocKinds
<1>2. MayMove(m, p, e, f, {x}) /\ (p => Kept(m, p, e, f))
  BY LocKinds DEF MayMove, MayWrite, MayRead, Never, Referring, Kept
<1>3. MayWrite(m, f, {x})
  BY LocKinds DEF MayWrite
<1> HIDE DEF x
<1>4. Does(m, Move(e, f), {x}, p, {x}, p)
  BY <1>1, <1>2, DoesMove
<1>5. Does(m, <<<<"put", "type", f, t>>>>, {x}, p, {x}, p)
  BY <1>1, <1>3, DoesPutType
<1> QED
  BY <1>4, <1>5 DEF x

LEMMA AinsRuns ==
  ASSUME NEW m \in Mutator, NEW e \in Elem, NEW f \in Elem, ArrOf[e] = ArrOf[f],
         NEW t \in Scalar
  PROVE  Does(m, ains(m, e, f, t), {}, FALSE, {}, FALSE)
<1> DEFINE x == MarkKey(ArrOf[e])
           lk == MarkLock(ArrOf[e])
           fr == MarkFree(ArrOf[e])
           nil == <<<<"put", "type", f, t>>>>
<1>1. m \in Loc /\ FALSE \in BOOLEAN
  BY LocKinds
<1>2. Does(m, lk, {}, FALSE, {x}, FALSE) /\ Does(m, fr, {x}, FALSE, {}, FALSE)
  BY <1>1, MarkAlone
<1>3. Does(m, Move(e, f), {x}, FALSE, {x}, FALSE) /\ Does(m, nil, {x}, FALSE, {x}, FALSE)
  BY <1>1, ElementRuns
<1>4. Does(m, copy(m, m), {}, FALSE, {}, FALSE)
  BY <1>1, CopyRuns
<1>5. ains(m, e, f, t) = lk \o Move(e, f) \o nil \o fr \o copy(m, m)
  BY DEF ains
<1> HIDE DEF x, lk, fr, nil
<1>6. Does(m, lk \o Move(e, f), {}, FALSE, {x}, FALSE)
  BY <1>2, <1>3, DoesThen
<1>7. Does(m, lk \o Move(e, f) \o nil, {}, FALSE, {x}, FALSE)
  BY <1>3, <1>6, DoesThen
<1>8. Does(m, lk \o Move(e, f) \o nil \o fr, {}, FALSE, {}, FALSE)
  BY <1>2, <1>7, DoesThen
<1> QED
  BY <1>4, <1>5, <1>8, DoesThen

LEMMA AsizeRuns ==
  ASSUME NEW m \in Mutator, NEW e \in Elem, NEW t \in Scalar
  PROVE  Does(m, asize(e, t), {}, FALSE, {}, FALSE)
<1> DEFINE x == MarkKey(ArrOf[e])
<1>1. FALSE \in BOOLEAN
  OBVIOUS
<1>2. /\ Does(m, MarkLock(ArrOf[e]), {}, FALSE, {x}, FALSE)
      /\ Does(m, MarkFree(ArrOf[e]), {x}, FALSE, {}, FALSE)
  BY <1>1, MarkAlone
<1>3. Does(m, <<<<"put", "type", e, t>>>>, {x}, FALSE, {x}, FALSE)
  BY <1>1, ElementRuns
<1>4. Does(m, MarkLock(ArrOf[e]) \o <<<<"put", "type", e, t>>>>, {}, FALSE, {x}, FALSE)
  BY <1>2, <1>3, DoesThen
<1> QED
  BY <1>2, <1>4, DoesThen DEF asize

LEMMA AsortRuns ==
  ASSUME NEW m \in Mutator, NEW v \in Var, NEW e \in Elem, NEW f \in Elem,
         ArrOf[e] = ArrOf[f], NEW t \in Scalar, NEW d \in Datum, "asort" \in Ops
  PROVE  Does(m, asort(m, v, e, f, t, d), {}, FALSE, {}, FALSE)
<1> DEFINE x == MarkKey(ArrOf[e])
           lk == MarkLock(ArrOf[e])
           fr == MarkFree(ArrOf[e])
           n == number(m, t, d)
           b == push_symbol(m, v)
           c == push_symbol(m, e)
           k == push_symbol(m, f)
           P(s, h, p, g, q) == Does(m, s, h, p, g, q)
<1>1. {x} \in SUBSET Mutex /\ {x} \cap Values = {} /\ {} \cap Values = {}
  BY Kinds, LocKinds
<1>2. FALSE \in BOOLEAN /\ TRUE \in BOOLEAN /\ Still("load") = FALSE
  BY DEF Still
<1>3. P(lk, {}, FALSE, {x}, FALSE) /\ P(fr, {x}, FALSE, {}, FALSE)
  BY <1>2, MarkAlone
<1>4. P(Move(e, f), {x}, FALSE, {x}, FALSE)
  BY <1>2, ElementRuns
<1>5. asort(m, v, e, f, t, d) = lk \o n \o b \o fr \o c \o k \o lk \o Move(e, f) \o fr
  BY DEF asort
<1>6. P(n, {x}, FALSE, {x}, TRUE)
  BY <1>1, <1>2, NumberRuns
<1>7. P(b, {x}, TRUE, {x}, FALSE)
  BY <1>1, <1>2, SymbolRuns DEF push_symbol
<1>8. P(c, {}, FALSE, {}, FALSE) /\ P(k, {}, FALSE, {}, FALSE)
  BY <1>1, <1>2, SymbolRuns DEF push_symbol
<1> HIDE DEF x, lk, fr, n, b, c, k
<1>9. P(lk \o n, {}, FALSE, {x}, TRUE)
  BY <1>3, <1>6, DoesThen
<1>10. P(lk \o n \o b, {}, FALSE, {x}, FALSE)
  BY <1>7, <1>9, DoesThen
<1>11. P(lk \o n \o b \o fr, {}, FALSE, {}, FALSE)
  BY <1>3, <1>10, DoesThen
<1>12. P(lk \o n \o b \o fr \o c, {}, FALSE, {}, FALSE)
  BY <1>8, <1>11, DoesThen
<1>13. P(lk \o n \o b \o fr \o c \o k, {}, FALSE, {}, FALSE)
  BY <1>8, <1>12, DoesThen
<1>14. P(lk \o n \o b \o fr \o c \o k \o lk, {}, FALSE, {x}, FALSE)
  BY <1>3, <1>13, DoesThen
<1>15. P(lk \o n \o b \o fr \o c \o k \o lk \o Move(e, f), {}, FALSE, {x}, FALSE)
  BY <1>4, <1>14, DoesThen
<1> QED
  BY <1>3, <1>5, <1>15, DoesThen

(* Every operation a thread can begin ends with nothing held.               *)
LEMMA OperationRuns ==
  ASSUME NEW m \in Mutator, NEW s \in Operations(m)
  PROVE  \E q \in BOOLEAN : Does(m, s, {}, FALSE, {}, q)
<1>1. FALSE \in BOOLEAN /\ TRUE \in BOOLEAN
  OBVIOUS
<1>2. CASE \E v \in Var \cup Elem : s = PUSH(m, v)
  BY <1>1, <1>2, PushRuns
<1>3. CASE \E c \in Cell : s = push_blkenv(m, c)
  BY <1>1, <1>3, PushRuns DEF push_blkenv
<1>4. CASE \E v \in Var : s = push_symbol(m, v)
  <2>1. /\ {} \cap Values = {} /\ {} \in SUBSET Mutex /\ Still("load") = FALSE
    BY DEF Still
  <2>2. \A v \in Var : Does(m, push_symbol(m, v), {}, FALSE, {}, FALSE)
    BY <1>1, <2>1, SymbolRuns DEF push_symbol
  <2> QED
    BY <1>1, <1>4, <2>2
<1>5. CASE \E e \in Elem : s = idxr(m, e)
  <2>1. \A e \in Elem : Does(m, idxr(m, e), {}, FALSE, {}, FALSE)
    BY <1>1, LocKinds, CopyRuns DEF idxr
  <2> QED
    BY <1>1, <1>5, <2>1
<1>6. CASE \E v \in Var : s = push_symbol_ref(m, v)
  BY <1>1, <1>6, CaptureRuns
<1>7. CASE \E t \in Scalar : s = PUSHNIL(m, t) \/ \E d \in Datum : s = number(m, t, d)
  <2>1. {} \in SUBSET Mutex
    OBVIOUS
  <2>2. PICK d \in Datum : TRUE
    BY NameAssumption
  <2> QED
    BY <1>1, <1>7, <2>1, <2>2, NumberRuns
<1>8. CASE \E t \in Scalar, d \in Datum : s = oref_new(m, t, d)
  BY <1>1, <1>8, NewRuns
<1>9. CASE \E x \in Pairs, t \in Scalar : s = ains(m, x[1], x[2], t)
  BY <1>1, <1>9, AinsRuns DEF Pairs
<1>10. CASE \E e \in Elem, t \in Scalar : s = asize(e, t)
  BY <1>1, <1>10, AsizeRuns
<1>11. CASE "asort" \in Ops /\ \E v \in Var, x \in Pairs, t \in Scalar, d \in Datum :
              s = asort(m, v, x[1], x[2], t, d)
  BY <1>1, <1>11, AsortRuns DEF Pairs
<1>12. \/ \E v \in Var \cup Elem : s = PUSH(m, v)
       \/ \E c \in Cell : s = push_blkenv(m, c)
       \/ \E v \in Var : s = push_symbol(m, v)
       \/ \E e \in Elem : s = idxr(m, e)
       \/ \E v \in Var : s = push_symbol_ref(m, v)
       \/ \E t \in Scalar : s = PUSHNIL(m, t)
       \/ \E t \in Scalar, d \in Datum : s = number(m, t, d)
       \/ \E t \in Scalar, d \in Datum : s = oref_new(m, t, d)
       \/ \E x \in Pairs, t \in Scalar : s = ains(m, x[1], x[2], t)
       \/ \E e \in Elem, t \in Scalar : s = asize(e, t)
       \/ "asort" \in Ops /\ \E v \in Var, x \in Pairs, t \in Scalar, d \in Datum :
            s = asort(m, v, x[1], x[2], t, d)
  BY SMTT(60) DEF Operations, Is
<1> QED
  BY <1>2, <1>3, <1>4, <1>5, <1>6, <1>7, <1>8, <1>9, <1>10, <1>11, <1>12

(* Those that store the top of the stack begin with no reference there.     *)
LEMMA StoringRuns ==
  ASSUME NEW m \in Mutator, NEW s \in Stores(m)
  PROVE  \E q \in BOOLEAN : Does(m, s, {}, TRUE, {}, q)
<1>1. FALSE \in BOOLEAN /\ TRUE \in BOOLEAN
  OBVIOUS
<1>2. CASE \E v \in Var : s = assign(m, v)
  <2>1. {} \cap Values = {} /\ {} \in SUBSET Mutex /\ Still("store") = TRUE
    BY DEF Still
  <2>2. \A v \in Var : Does(m, assign(m, v), {}, TRUE, {}, TRUE)
    BY <1>1, <2>1, SymbolRuns DEF assign
  <2> QED
    BY <1>1, <1>2, <2>2
<1>3. CASE \E e \in Elem : s \in {assign2(m, e), method(m, e)}
  BY <1>1, <1>3, StoreRuns
<1>4. CASE \E e \in Elem : s = aadd(m, e)
  BY <1>1, <1>4, AaddRuns
<1>5. CASE \E d \in Datum : s = blkenv(m, d)
  <2>1. \A d \in Datum : Does(m, blkenv(m, d), {}, TRUE, {}, TRUE)
    BY DoesPutData DEF blkenv
  <2> QED
    BY <1>1, <1>5, <2>1
<1> QED
  BY <1>2, <1>3, <1>4, <1>5 DEF Stores, Is
-----------------------------------------------------------------------------
(* What the program becomes when the type of v is known, or its vref.       *)

FollowState(h, p, v) ==
  State(h, {}, FALSE, p, IF v \in Var THEN {v} ELSE {})

Following(s, h, p, v) ==
  /\ s \in States /\ Whole2(s) /\ s.held = h /\ s.plain = p
  /\ v \in Var => v \in s.ref
  /\ \A x \in s.ref : x = v /\ v \in Var
  /\ s = State(h, {}, FALSE, p, s.ref)

LEMMA FollowStateFacts ==
  ASSUME NEW h \in SUBSET Mutex, NEW p \in BOOLEAN, NEW v
  PROVE  Following(FollowState(h, p, v), h, p, v)
<1> DEFINE r == IF v \in Var THEN {v} ELSE {}
<1>1. r \in SUBSET Var /\ (v \in Var => v \in r) /\ \A x \in r : x = v /\ v \in Var
  OBVIOUS
<1>2. FollowState(h, p, v) = State(h, {}, FALSE, p, r)
  BY DEF FollowState
<1> HIDE DEF r
<1> QED
  BY <1>1, <1>2 DEF State, States, Whole2, Following

LEMMA FollowRuns ==
  ASSUME NEW a, NEW how \in Accesses, NEW v \in Loc, NEW h \in SUBSET Mutex,
         NEW p \in BOOLEAN, MayFollow(a, how, v, p, h), ScanSafe(a, h)
  PROVE  Runs(a, <<<<"follow", how, v>>>>, FollowState(h, p, v),
              Calm(Left(how, h), Still(how)))
<1> DEFINE i == <<"follow", how, v>>
           s == FollowState(h, p, v)
           t == Calm(Left(how, h), Still(how))
<1>1. i \in Instruction
  BY DEF Instruction
<1>2. i[1] = "follow" /\ i[2] = how /\ i[3] = v
  OBVIOUS
<1>3. s \in States /\ Whole2(s) /\ s.held = h /\ s.plain = p /\ (v \in Var => v \in s.ref)
  <2>1. Following(s, h, p, v)
    BY FollowStateFacts
  <2> HIDE DEF s
  <2> QED
    BY <2>1 DEF Following
<1>4. Left(how, h) \in SUBSET Mutex /\ Still(how) \in BOOLEAN
  BY DEF Left, Still
<1>5. t \in States /\ t = Calm(Left(how, s.held), Still(how))
  BY <1>3, <1>4, CalmFacts
<1> HIDE DEF i, s, t
<1>6. LeadsFollow(a, how, v, s, t)
  BY <1>3, <1>5 DEF LeadsFollow
<1>7. Leads(a, i, s, t)
  BY <1>1, <1>2, <1>3, <1>6 DEF Leads
<1>8. Runs(a, <<i>>, s, t)
  BY <1>3, <1>5, <1>7, RunsOne
<1> QED
  BY <1>8 DEF i, s, t

(* Mutex 0 is freed before the reference is followed.                       *)
LEMMA FreeZeroRuns ==
  ASSUME NEW m \in Mutator, NEW v, NEW h \in SUBSET Mutex, NEW p \in BOOLEAN,
         Zero \in h, v \in Var => Key(v) \in h \ {Zero}
  PROVE  Runs(m, Free0, FollowState(h, p, v), FollowState(h \ {Zero}, p, v))
<1> DEFINE i == <<"free", Zero>>
           s == FollowState(h, p, v)
           t == FollowState(h \ {Zero}, p, v)
<1>1. i \in Instruction /\ i[1] = "free" /\ i[2] = Zero
  BY Kinds DEF Instruction
<1>2. s \in States /\ Whole2(s) /\ s.held = h /\ s.plain = p /\ (v \in Var => v \in s.ref)
  <2>1. Following(s, h, p, v)
    BY FollowStateFacts
  <2> HIDE DEF s
  <2> QED
    BY <2>1 DEF Following
<1>3. h \ {Zero} \in SUBSET Mutex
  OBVIOUS
<1>4. /\ t \in States /\ t.held = h \ {Zero} /\ \A x \in t.ref : x = v /\ v \in Var
      /\ t = State(h \ {Zero}, {}, FALSE, p, t.ref)
  <2>1. Following(t, h \ {Zero}, p, v)
    BY <1>3, FollowStateFacts
  <2> HIDE DEF t
  <2> QED
    BY <2>1 DEF Following
<1>5. ScanSafe(m, h)
  BY LocKinds
<1> HIDE DEF i, s, t
<1>6. RefKept(s, t)
  BY <1>2, <1>4 DEF RefKept
<1>7. LeadsFree(Zero, s, t)
  BY <1>2, <1>4, <1>6 DEF LeadsFree
<1>8. Leads(m, i, s, t)
  BY <1>1, <1>2, <1>5, <1>7 DEF Leads
<1>9. Runs(m, <<i>>, s, t)
  BY <1>2, <1>4, <1>8, RunsOne
<1> QED
  BY <1>9 DEF i, s, t, Free0, Zero

(* A variable or vref is loaded or stored under one mutex or the other.     *)
LEMMA AccessRuns ==
  ASSUME NEW m \in Mutator, NEW how \in {"load", "store"}, NEW p \in BOOLEAN,
         NEW l \in Var \cup Elem \cup Cell, NEW h \in SUBSET Mutex, h \cap Stripes # {},
         l \in Var => Key(l) \in h, how = "store" => p /\ l \notin Elem
  PROVE  Does(m, Access(m, how, l), h, p, h, Still(how))
<1>1. l \in Loc /\ m \in Loc /\ ScanSafe(m, h) /\ FALSE \in BOOLEAN /\ TRUE \in BOOLEAN
  BY LocKinds
<1>2. CASE how = "load"
  <2>1. MayMove(m, p, m, l, h) /\ MayMove(m, FALSE, m, l, h)
    BY LocKinds DEF MayMove, MayWrite, MayRead, Never
  <2>2. Still(how) = FALSE /\ Access(m, how, l) = Move(m, l)
    BY <1>2 DEF Still, Access
  <2>3. Does(m, Move(m, l), h, p, h, FALSE)
    BY <1>1, <2>1, DoesMove
  <2> QED
    BY <2>2, <2>3
<1>3. CASE how = "store"
  <2>1. /\ MayMove(m, TRUE, l, m, h) /\ Kept(m, TRUE, l, m) /\ p = TRUE
    BY <1>3, LocKinds DEF MayMove, MayWrite, MayRead, Never, Kept
  <2>2. Still(how) = TRUE /\ Access(m, how, l) = Move(l, m)
    BY <1>3 DEF Still, Access
  <2>3. Does(m, Move(l, m), h, TRUE, h, TRUE)
    BY <1>1, <2>1, DoesMove
  <2> QED
    BY <2>1, <2>2, <2>3
<1> QED
  BY <1>2, <1>3

LEMMA TestedLoadRuns ==
  ASSUME NEW m \in Mutator, NEW how \in {"load", "store"}, NEW v \in Var \cup Elem,
         NEW h \in SUBSET Mutex, NEW p \in BOOLEAN, MayTest(m, how, v, p, h),
         IsRef(v) => v \in Var
  PROVE  Runs(m, Tested(m, how, v),
              IF IsRef(v) THEN FollowState(h, p, v) ELSE Calm(h, p),
              Calm(Left(how, h), Still(how)))
<1> DEFINE k == h \ {Zero}
<1>1. /\ h \cap Values = {Zero, Key(v)} /\ (how = "store" => p /\ v \in Var)
      /\ Key(v) \in Stripes /\ Zero \notin Stripes /\ v \in Loc /\ v \notin Cell
      /\ Zero \in Mutex /\ how \in Accesses
  BY LocKinds, Kinds DEF MayTest, Accesses
<1>2. /\ k \in SUBSET Mutex /\ k \cap Values = {Key(v)} /\ Key(v) \in k
      /\ Zero \in h /\ k \ Stripes = h \ Values /\ k \ Values = h \ Values
      /\ k \cap Stripes # {}
  BY <1>1 DEF Values
<1>3. Left(how, h) = h \ Values /\ Left(how, k) = h \ Values /\ Still(how) \in BOOLEAN
  BY <1>2 DEF Left, Still
<1>4. ScanSafe(m, h) /\ ScanSafe(m, k)
  BY LocKinds
<1>5. CASE ~IsRef(v)
  <2>1. Does(m, Free0, h, p, k, p)
    BY <1>1, <1>2, <1>4, DoesFree DEF Free0, Zero
  <2> HIDE DEF k
  <2>2. Does(m, Access(m, how, v), k, p, k, Still(how))
    BY <1>1, <1>2, LocKinds, AccessRuns
  <2>3. Does(m, Unlock, k, Still(how), k \ Stripes, Still(how))
    BY <1>2, <1>3, <1>4, DoesUnlock
  <2>4. Does(m, Access(m, how, v) \o Unlock, k, p, k \ Stripes, Still(how))
    BY <2>2, <2>3, DoesThen
  <2>5. Does(m, Free0 \o (Access(m, how, v) \o Unlock), h, p, k \ Stripes, Still(how))
    BY <2>1, <2>4, DoesThen
  <2>6. Tested(m, how, v) = Free0 \o (Access(m, how, v) \o Unlock)
    BY <1>5 DEF Tested
  <2> QED
    BY <1>2, <1>3, <1>5, <2>5, <2>6 DEF Does
<1>6. CASE IsRef(v)
  <2>1. v \in Var
    BY <1>6
  <2>2. Runs(m, Free0, FollowState(h, p, v), FollowState(k, p, v))
    BY <1>1, <1>2, <2>1, FreeZeroRuns
  <2> HIDE DEF k
  <2>3. MayFollow(m, how, v, p, k)
    BY <1>1, <1>2, <2>1 DEF MayFollow
  <2>4. Runs(m, <<<<"follow", how, v>>>>, FollowState(k, p, v),
             Calm(Left(how, k), Still(how)))
    BY <1>1, <1>2, <1>4, <2>3, FollowRuns
  <2>5. Runs(m, Free0 \o <<<<"follow", how, v>>>>, FollowState(h, p, v),
             Calm(Left(how, k), Still(how)))
    BY <2>2, <2>4, RunsThen
  <2>6. Tested(m, how, v) = Free0 \o <<<<"follow", how, v>>>>
    BY <1>6 DEF Tested
  <2> QED
    BY <1>3, <1>6, <2>5, <2>6
<1> QED
  BY <1>5, <1>6

LEMMA TestedShadeRuns ==
  ASSUME NEW v \in Var \cup Elem, NEW h \in SUBSET Mutex, NEW p \in BOOLEAN,
         MayTest(Collector, "shade", v, p, h), ScanSafe(Collector, h),
         IsRef(v) => v \in Var
  PROVE  Runs(Collector, Tested(Collector, "shade", v),
              IF IsRef(v) THEN FollowState(h, p, v) ELSE Calm(h, p),
              Calm(Left("shade", h), Still("shade")))
<1> DEFINE k == h \ {Zero}
<1>1. /\ h \cap Values = {Zero, Key(v)} /\ p = FALSE
      /\ Key(v) \in Stripes /\ Zero \notin Stripes /\ v \in Loc
      /\ Zero \in Mutex /\ "shade" \in Accesses /\ ~(Tables \subseteq h)
      /\ Tables \cap Values = {}
  BY LocKinds, Kinds DEF MayTest, Accesses
<1>2. /\ k \in SUBSET Mutex /\ Zero \in h /\ k \ Stripes = h \ Values
      /\ ~(Tables \subseteq k)
  BY <1>1 DEF Values
<1>3. Left("shade", h) = h \ Values /\ Still("shade") = FALSE
  BY DEF Left, Still
<1>4. ScanSafe(Collector, k)
  BY <1>2 DEF ScanSafe
<1>5. CASE ~IsRef(v)
  <2>1. Does(Collector, Free0, h, p, k, p)
    BY <1>1, <1>2, <1>4, DoesFree DEF Free0, Zero
  <2> HIDE DEF k
  <2>2. Does(Collector, Unlock, k, p, k \ Stripes, p)
    BY <1>2, <1>4, DoesUnlock
  <2>3. Does(Collector, Free0 \o Unlock, h, p, k \ Stripes, p)
    BY <2>1, <2>2, DoesThen
  <2>4. Tested(Collector, "shade", v) = Free0 \o Unlock
    BY <1>5 DEF Tested
  <2> QED
    BY <1>1, <1>2, <1>3, <1>5, <2>3, <2>4 DEF Does
<1>6. CASE IsRef(v)
  <2>1. MayFollow(Collector, "shade", v, p, h)
    BY <1>1, <1>6 DEF MayFollow
  <2>2. Runs(Collector, <<<<"follow", "shade", v>>>>, FollowState(h, p, v),
             Calm(Left("shade", h), Still("shade")))
    BY <1>1, <2>1, FollowRuns
  <2>3. Tested(Collector, "shade", v) = <<<<"follow", "shade", v>>>>
    BY <1>6 DEF Tested
  <2> QED
    BY <1>6, <2>2, <2>3
<1> QED
  BY <1>5, <1>6

LEMMA TestedMarkRuns ==
  ASSUME NEW v \in Var \cup Elem \cup Mutator, NEW h \in SUBSET Mutex, NEW p \in BOOLEAN,
         MayTest(Collector, "mark", v, p, h), ScanSafe(Collector, h),
         IsRef(v) => v \in Var \cup Mutator
  PROVE  Runs(Collector, Tested(Collector, "mark", v),
              IF IsRef(v) THEN FollowState(h, p, v) ELSE Calm(h, p),
              Calm(Left("mark", h), Still("mark")))
<1>1. /\ Values \subseteq h /\ p = FALSE /\ v \in Loc /\ "mark" \in Accesses
      /\ Left("mark", h) = h /\ Still("mark") = FALSE
  BY LocKinds DEF MayTest, Accesses, Left, Still
<1>2. CASE ~IsRef(v)
  <2>1. Tested(Collector, "mark", v) = <<>>
    BY <1>2 DEF Tested
  <2>2. Does(Collector, <<>>, h, p, h, p)
    BY DoesNothing
  <2> QED
    BY <1>1, <1>2, <2>1, <2>2 DEF Does
<1>3. CASE IsRef(v)
  <2>1. MayFollow(Collector, "mark", v, p, h)
    BY <1>1, <1>3 DEF MayFollow
  <2>2. Runs(Collector, <<<<"follow", "mark", v>>>>, FollowState(h, p, v),
             Calm(Left("mark", h), Still("mark")))
    BY <1>1, <2>1, FollowRuns
  <2>3. Tested(Collector, "mark", v) = <<<<"follow", "mark", v>>>>
    BY <1>3 DEF Tested
  <2> QED
    BY <1>3, <2>2, <2>3
<1> QED
  BY <1>2, <1>3

(* Whatever is tested.                                                      *)
LEMMA TestedRuns ==
  ASSUME NEW a, NEW how \in Accesses, NEW v \in Loc,
         NEW h \in SUBSET Mutex, NEW p \in BOOLEAN, MayTest(a, how, v, p, h),
         ScanSafe(a, h), IsRef(v) => v \in Var \cup Mutator
  PROVE  Runs(a, Tested(a, how, v),
              IF IsRef(v) THEN FollowState(h, p, v) ELSE Calm(h, p),
              Calm(Left(how, h), Still(how)))
<1>1. CASE how \in {"load", "store"}
  <2>1. a \in Mutator /\ v \in Var \cup Elem /\ (IsRef(v) => v \in Var)
    BY <1>1, LocKinds DEF MayTest
  <2> QED
    BY <1>1, <2>1, TestedLoadRuns
<1>2. CASE how = "shade"
  <2>1. a = Collector /\ v \in Var \cup Elem /\ (IsRef(v) => v \in Var)
    BY <1>2, LocKinds DEF MayTest
  <2> QED
    BY <1>2, <2>1, TestedShadeRuns
<1>3. CASE how = "mark"
  <2>1. a = Collector /\ v \in Var \cup Elem \cup Mutator
    BY <1>3 DEF MayTest
  <2> QED
    BY <1>3, <2>1, TestedMarkRuns
<1> QED
  BY <1>1, <1>2, <1>3 DEF Accesses

LEMMA FollowedLoadRuns ==
  ASSUME NEW m \in Mutator, NEW how \in {"load", "store"}, NEW v \in Var,
         NEW c \in Cell, NEW h \in SUBSET Mutex, NEW p \in BOOLEAN,
         MayFollow(m, how, v, p, h)
  PROVE  Does(m, Followed(m, how, v, c), h, p, Left(how, h), Still(how))
<1>1. /\ h \cap Values = {Key(v)} /\ (how = "store" => p) /\ Key(v) \in Stripes
      /\ c \notin Elem /\ c \notin Var
  BY LocKinds, Kinds DEF MayFollow
<1>2. h \cap Stripes # {} /\ h \ Stripes = h \ Values
  BY <1>1, Kinds DEF Values
<1>3. Left(how, h) = h \ Values /\ Still(how) \in BOOLEAN /\ ScanSafe(m, h)
  BY LocKinds DEF Left, Still
<1>4. Does(m, Access(m, how, c), h, p, h, Still(how))
  BY <1>1, <1>2, AccessRuns
<1>5. Does(m, Unlock, h, Still(how), h \ Stripes, Still(how))
  BY <1>3, DoesUnlock
<1>6. Does(m, Access(m, how, c) \o Unlock, h, p, h \ Stripes, Still(how))
  BY <1>4, <1>5, DoesThen
<1>7. Followed(m, how, v, c) = Access(m, how, c) \o Unlock
  BY DEF Followed
<1> QED
  BY <1>2, <1>3, <1>6, <1>7

(* The mutex of the value of a vref, taken with mutex 0 if it is another.   *)
LEMMA MoreRuns ==
  ASSUME NEW a, NEW p \in BOOLEAN, NEW v \in Hashed, NEW c \in Hashed,
         NEW h \in SUBSET Mutex, h \cap Values = {Zero, Key(v)}, ScanSafe(a, h)
  PROVE  Does(a, LockMore(c, Stripe[v]), h, p, h \cup {Key(c)}, p)
<1>1. Key(c) \in Stripes /\ Key(c) \in Values /\ Key(v) \in h /\ Zero \in h
      /\ Zero \notin Stripes
  BY Kinds DEF Values
<1>2. CASE Stripe[c] = Stripe[v]
  <2>1. h \cup {Key(c)} = h
    BY <1>1, <1>2 DEF Key
  <2>2. LockMore(c, Stripe[v]) = <<>>
    BY <1>2 DEF LockMore
  <2>3. Does(a, <<>>, h, p, h, p)
    BY DoesNothing
  <2> QED
    BY <2>1, <2>2, <2>3
<1>3. CASE Stripe[c] # Stripe[v]
  <2>1. Key(c) # Key(v)
    BY <1>3 DEF Key
  <2>2. Key(c) \notin h
    BY <1>1, <2>1
  <2>3. LockMore(c, Stripe[v]) = Lock(c)
    BY <1>3 DEF LockMore
  <2> QED
    BY <1>1, <2>2, <2>3, TakesMore
<1> QED
  BY <1>2, <1>3

LEMMA FollowedShadeRuns ==
  ASSUME NEW v \in Var, NEW c \in Cell, NEW h \in SUBSET Mutex, NEW p \in BOOLEAN,
         MayFollow(Collector, "shade", v, p, h), ScanSafe(Collector, h)
  PROVE  Does(Collector, Followed(Collector, "shade", v, c), h, p,
              Left("shade", h), Still("shade"))
<1> DEFINE k == h \cup {Key(c)}
           j == k \ Stripes
<1>1. /\ h \cap Values = {Zero, Key(v)} /\ p = FALSE /\ ~(Tables \subseteq h)
      /\ v \in Hashed /\ c \in Hashed /\ Zero \in Mutex
      /\ Left("shade", h) = h \ Values /\ Still("shade") = FALSE
  BY LocKinds, Kinds DEF MayFollow, Left, Still
<1>2. /\ Key(c) \in Stripes /\ Key(c) \in Values /\ Key(c) \in Mutex
      /\ Tables \cap Values = {} /\ Zero \notin Stripes
  BY <1>1, Kinds DEF Values
<1>3. /\ k \in SUBSET Mutex /\ ~(Tables \subseteq k)
      /\ j \in SUBSET Mutex /\ ~(Tables \subseteq j) /\ Zero \in j
      /\ j \ {Zero} = h \ Values
  BY <1>1, <1>2 DEF Values
<1>4. ScanSafe(Collector, k) /\ ScanSafe(Collector, j)
  BY <1>3 DEF ScanSafe
<1>5. Does(Collector, LockMore(c, Stripe[v]), h, p, k, p)
  BY <1>1, MoreRuns
<1> HIDE DEF k
<1>6. Does(Collector, Unlock, k, p, j, p)
  BY <1>3, <1>4, DoesUnlock
<1> HIDE DEF j
<1>7. Does(Collector, Free0, j, p, j \ {Zero}, p)
  BY <1>1, <1>3, <1>4, DoesFree DEF Free0, Zero
<1>8. Does(Collector, LockMore(c, Stripe[v]) \o Unlock, h, p, j, p)
  BY <1>5, <1>6, DoesThen
<1>9. Does(Collector, LockMore(c, Stripe[v]) \o Unlock \o Free0, h, p, j \ {Zero}, p)
  BY <1>7, <1>8, DoesThen
<1>10. Followed(Collector, "shade", v, c) = LockMore(c, Stripe[v]) \o Unlock \o Free0
  BY DEF Followed
<1> QED
  BY <1>1, <1>3, <1>9, <1>10

LEMMA FollowedRuns ==
  ASSUME NEW a, NEW how \in Accesses, NEW v \in Loc, NEW c \in Cell,
         NEW h \in SUBSET Mutex, NEW p \in BOOLEAN, MayFollow(a, how, v, p, h),
         ScanSafe(a, h)
  PROVE  Does(a, Followed(a, how, v, c), h, p, Left(how, h), Still(how))
<1>1. CASE how \in {"load", "store"}
  <2>1. a \in Mutator /\ v \in Var
    BY <1>1 DEF MayFollow
  <2> QED
    BY <1>1, <2>1, FollowedLoadRuns
<1>2. CASE how = "shade"
  <2>1. a = Collector /\ v \in Var
    BY <1>2 DEF MayFollow
  <2> QED
    BY <1>2, <2>1, FollowedShadeRuns
<1>3. CASE how = "mark"
  <2>1. /\ p = FALSE /\ Left(how, h) = h /\ Still(how) = FALSE
        /\ Followed(a, how, v, c) = <<>>
    BY <1>3 DEF MayFollow, Left, Still, Followed
  <2>2. Does(a, <<>>, h, p, h, p)
    BY DoesNothing
  <2> QED
    BY <2>1, <2>2
<1> QED
  BY <1>1, <1>2, <1>3 DEF Accesses

(* A variable is captured; a free vref may have to be waited for.           *)
LEMMA TakenRuns ==
  ASSUME NEW m \in Mutator, NEW c \in Cell
  PROVE  Does(m, Taken(m, c), {Vref}, TRUE, {}, FALSE)
<1> DEFINE i == <<"data", c, m>>
           k == <<"type", c, m>>
           s == Calm({Vref}, TRUE)
           refer == <<<<"put", "type", m, "ref">>, <<"put", "data", m, c>>>>
<1>1. /\ i \in Instruction /\ i[1] = "data" /\ i[2] = c /\ i[3] = m
      /\ k \in Instruction /\ k[1] = "type" /\ k[2] = c /\ k[3] = m
  BY LocKinds DEF Instruction
<1>2. {Vref} \in SUBSET Mutex /\ TRUE \in BOOLEAN /\ FALSE \in BOOLEAN /\ Vref \in {Vref}
  BY Kinds
<1>3. /\ s \in States /\ s.held = {Vref} /\ s.plain = TRUE /\ Whole2(s)
  BY <1>2, CalmFacts
<1>4. s = State(s.held, {}, FALSE, s.plain, {}) /\ s.mid = {} /\ s.half = FALSE
  BY <1>3 DEF Calm, Whole2
<1>5. MayMove(m, TRUE, c, m, {Vref}) /\ Mid(m, c, m) = {} /\ Kept(m, TRUE, c, m)
  BY LocKinds DEF MayMove, MayWrite, MayRead, Never, Referring, Mid, Kept
<1>6. ScanSafe(m, {Vref})
  BY LocKinds
<1> HIDE DEF s
<1>7. LeadsData(m, c, m, s, s)
  BY <1>3, <1>4, <1>5 DEF LeadsData
<1>8. LeadsType(m, c, m, s, s)
  BY <1>3, <1>4, <1>5 DEF LeadsType
<1> HIDE DEF i, k
<1>9. Leads(m, i, s, s) /\ Leads(m, k, s, s)
  BY <1>1, <1>3, <1>6, <1>7, <1>8 DEF Leads
<1>10. Does(m, <<i>>, {Vref}, TRUE, {Vref}, TRUE) /\ Does(m, <<k>>, {Vref}, TRUE, {Vref}, TRUE)
  BY <1>2, <1>9, DoesOne DEF s
<1>11. Does(m, refer, {Vref}, TRUE, {Vref}, FALSE)
  BY <1>2, DoesRefer
<1>12. Does(m, <<<<"free", Vref>>>>, {Vref}, FALSE, {}, FALSE)
  BY <1>2, Kinds, AloneRuns
<1>13. Refer(m, c) = <<i>> \o <<k>> \o refer
  BY DEF Refer, i, k
<1> HIDE DEF refer
<1>14. Does(m, <<i>> \o <<k>>, {Vref}, TRUE, {Vref}, TRUE)
  BY <1>10, DoesThen
<1>15. Does(m, Refer(m, c), {Vref}, TRUE, {Vref}, FALSE)
  BY <1>11, <1>13, <1>14, DoesThen
<1> QED
  BY <1>12, <1>15, DoesThen DEF Taken, Vref

LEMMA CapturedRuns ==
  ASSUME NEW m \in Mutator
  PROVE  /\ Does(m, vref_new(m), {}, TRUE, {}, FALSE)
         /\ Does(m, <<<<"free", <<"vref", 0>>>>>> \o vref_new(m), {Vref}, TRUE, {}, FALSE)
         /\ \A v \in Var : Does(m, vref_new(m) \o copy(v, m), {}, TRUE, {}, FALSE)
<1>1. TRUE \in BOOLEAN /\ FALSE \in BOOLEAN
  OBVIOUS
<1>2. /\ Does(m, <<<<"lock", Vref>>>>, {}, TRUE, {Vref}, TRUE)
      /\ Does(m, <<<<"free", Vref>>>>, {Vref}, TRUE, {}, TRUE)
  BY <1>1, Kinds, AloneRuns
<1>3. Does(m, <<<<"take">>>>, {Vref}, TRUE, {}, FALSE)
  BY DoesTake
<1>4. vref_new(m) = <<<<"lock", Vref>>>> \o <<<<"take">>>>
  BY DEF vref_new, Vref
<1>5. Does(m, vref_new(m), {}, TRUE, {}, FALSE)
  BY <1>2, <1>3, <1>4, DoesThen
<1>6. Does(m, <<<<"free", Vref>>>> \o vref_new(m), {Vref}, TRUE, {}, FALSE)
  BY <1>2, <1>5, DoesThen
<1>7. ASSUME NEW v \in Var PROVE Does(m, vref_new(m) \o copy(v, m), {}, TRUE, {}, FALSE)
  <2>1. Does(m, copy(v, m), {}, FALSE, {}, FALSE)
    BY <1>1, LocKinds, CopyRuns
  <2> QED
    BY <1>5, <2>1, DoesThen
<1> QED
  BY <1>5, <1>6, <1>7 DEF Vref
-----------------------------------------------------------------------------
(* The collector.                                                           *)

LEMMA TablesRun ==
  /\ Does(Collector, LockTables, Values, FALSE, Values \cup Tables, FALSE)
  /\ Does(Collector, FreeTables, Values \cup Tables, FALSE, Values, FALSE)
<1> DEFINE x == <<"oref", 0>>
           y == <<"vref", 0>>
           h == Values \cup {x}
           g == Values \cup Tables
<1>1. /\ x \in Mutex /\ y \in Mutex /\ x \notin Values /\ y \notin h
      /\ h \cup {y} = g /\ g \ {y} = h /\ h \ {x} = Values
      /\ Values \in SUBSET Mutex /\ h \in SUBSET Mutex /\ g \in SUBSET Mutex
      /\ x \in h /\ y \in g /\ Zero \in Values /\ Zero \in h
      /\ Stripes \subseteq Values /\ Stripes \subseteq h /\ Stripes \subseteq g
  BY Kinds DEF Tables, Values, Mutex, Vref
<1>2. x[1] # "value" /\ y[1] # "value" /\ Collector \notin Mutator /\ FALSE \in BOOLEAN
  BY NameAssumption
<1>3. LockTables = <<<<"lock", x>>>> \o <<<<"lock", y>>>>
  BY DEF LockTables
<1>4. FreeTables = <<<<"free", y>>>> \o <<<<"free", x>>>>
  BY DEF FreeTables
<1> HIDE DEF x, y, g
<1>5. MayLock(Collector, x, Values) /\ MayLock(Collector, y, h)
  BY <1>1, <1>2 DEF MayLock
<1> HIDE DEF h
<1>6. ScanSafe(Collector, Values) /\ ScanSafe(Collector, h) /\ ScanSafe(Collector, g)
  BY <1>1 DEF ScanSafe
<1>7. Does(Collector, <<<<"lock", x>>>>, Values, FALSE, h, FALSE)
  BY <1>1, <1>2, <1>5, <1>6, DoesLock DEF h
<1>8. Does(Collector, <<<<"lock", y>>>>, h, FALSE, g, FALSE)
  <2>1. Does(Collector, <<<<"lock", y>>>>, h, FALSE, h \cup {y}, FALSE)
    BY <1>1, <1>2, <1>5, <1>6, DoesLock
  <2> QED
    BY <1>1, <2>1
<1>9. Does(Collector, <<<<"free", y>>>>, g, FALSE, h, FALSE)
  <2>1. Does(Collector, <<<<"free", y>>>>, g, FALSE, g \ {y}, FALSE)
    BY <1>1, <1>2, <1>6, DoesFree
  <2> QED
    BY <1>1, <2>1
<1>10. Does(Collector, <<<<"free", x>>>>, h, FALSE, Values, FALSE)
  <2>1. Does(Collector, <<<<"free", x>>>>, h, FALSE, h \ {x}, FALSE)
    BY <1>1, <1>2, <1>6, DoesFree
  <2> QED
    BY <1>1, <2>1
<1> QED
  BY <1>3, <1>4, <1>7, <1>8, <1>9, <1>10, DoesThen DEF g

(* The mutex of an object, beside all mutexes or on its own.                *)
LEMMA CollectorMark ==
  ASSUME NEW o \in Arr, NEW h \in SUBSET Mutex, MarkKey(o) \notin h,
         ScanSafe(Collector, h), h = {} \/ Zero \in h
  PROVE  /\ Does(Collector, MarkLock(o), h, FALSE, h \cup {MarkKey(o)}, FALSE)
         /\ Does(Collector, MarkFree(o), h \cup {MarkKey(o)}, FALSE, h, FALSE)
         /\ ScanSafe(Collector, h \cup {MarkKey(o)})
<1> DEFINE x == MarkKey(o)
           g == h \cup {x}
<1>1. /\ x \in Mutex /\ x[1] # "value" /\ g \in SUBSET Mutex /\ x \in g /\ g \ {x} = h
      /\ x \notin Tables /\ Stripes \cap g = Stripes \cap h
  BY Kinds DEF Hashed, Values
<1>2. Collector \notin Mutator /\ FALSE \in BOOLEAN
  BY NameAssumption
<1> HIDE DEF x
<1>3. MayLock(Collector, x, h)
  BY <1>1, <1>2 DEF MayLock, x
<1>4. ScanSafe(Collector, g)
  BY <1>1 DEF ScanSafe, x
<1>5. Does(Collector, <<<<"lock", x>>>>, h, FALSE, g, FALSE)
  BY <1>1, <1>2, <1>3, DoesLock
<1> HIDE DEF g
<1>6. Does(Collector, <<<<"free", x>>>>, g, FALSE, g \ {x}, FALSE)
  BY <1>1, <1>2, <1>4, DoesFree
<1> QED
  BY <1>1, <1>4, <1>5, <1>6 DEF MarkLock, MarkFree, MarkKey, x, g

(* What is on the stacks is scanned with all mutexes, what an object refers *)
(* to with its own.                                                         *)
LEMMA ShadeRuns ==
  ASSUME NEW v \in Loc, v \in Var \cup Elem \cup Mutator, NEW h \in SUBSET Mutex,
         Values \subseteq h
  PROVE  Does(Collector, vartab_shade(v), h, FALSE, h, FALSE)
<1>1. "mark" \in Accesses /\ Left("mark", h) = h /\ Still("mark") = FALSE
      /\ FALSE \in BOOLEAN
  BY DEF Accesses, Left, Still
<1>2. MayTest(Collector, "mark", v, FALSE, h) /\ ScanSafe(Collector, h)
  BY DEF MayTest, ScanSafe, Values
<1>3. Does(Collector, <<<<"test", "mark", v>>>>, h, FALSE, Left("mark", h), Still("mark"))
  BY <1>1, <1>2, DoesTest
<1> QED
  BY <1>1, <1>3 DEF vartab_shade

LEMMA ShadeLockRuns ==
  ASSUME NEW v \in Var \cup Elem, NEW h \in SUBSET Mutex,
         h \cap (Values \cup Tables) = {}
  PROVE  Does(Collector, vartab_shade_lk(v), h, FALSE, h, FALSE)
<1> DEFINE g == h \cup {Zero}
           k == g \cup {Key(v)}
<1>1. /\ "shade" \in Accesses /\ Left("shade", k) = k \ Values /\ Still("shade") = FALSE
      /\ FALSE \in BOOLEAN
  BY DEF Accesses, Left, Still
<1>2. /\ v \in Loc /\ v \in Hashed /\ Key(v) \in Stripes /\ Key(v) \in Mutex
      /\ Zero \in Mutex /\ Key(v) \in Values /\ Zero \in Values /\ Zero \notin Stripes
      /\ Vref \in Tables /\ Tables \cap Values = {} /\ Zero[1] = "value"
  BY LocKinds, Kinds DEF Values, Zero
<1>3. /\ g \in SUBSET Mutex /\ k \in SUBSET Mutex /\ k \ Values = h
      /\ k \cap Values = {Zero, Key(v)} /\ Vref \notin k /\ Vref \notin g /\ Vref \notin h
      /\ Zero \notin h /\ Key(v) \notin g /\ Zero \in g /\ h \cap Stripes = {}
  BY <1>2 DEF Values
<1>4. /\ ScanSafe(Collector, h) /\ ScanSafe(Collector, g) /\ ScanSafe(Collector, k)
      /\ ~(Tables \subseteq k)
  BY <1>2, <1>3 DEF ScanSafe
<1>5. MayLock(Collector, Zero, h)
  BY <1>2, <1>3 DEF MayLock
<1>6. Does(Collector, Lock0, h, FALSE, g, FALSE)
  BY <1>1, <1>2, <1>4, <1>5, DoesLock DEF Lock0, Zero
<1> HIDE DEF g
<1>7. Does(Collector, Lock(v), g, FALSE, k, FALSE)
  BY <1>1, <1>2, <1>3, <1>4, TakesMore
<1> HIDE DEF k
<1>8. MayTest(Collector, "shade", v, FALSE, k)
  BY <1>3, <1>4 DEF MayTest
<1>9. Does(Collector, <<<<"test", "shade", v>>>>, k, FALSE, Left("shade", k), Still("shade"))
  BY <1>1, <1>2, <1>3, <1>4, <1>8, DoesTest
<1>10. Does(Collector, <<<<"test", "shade", v>>>>, k, FALSE, h, FALSE)
  BY <1>1, <1>3, <1>9
<1>11. Does(Collector, Lock0 \o Lock(v), h, FALSE, k, FALSE)
  BY <1>6, <1>7, DoesThen
<1> QED
  BY <1>10, <1>11, DoesThen DEF vartab_shade_lk

LEMMA VisitRuns ==
  ASSUME NEW o \in Arr
  PROVE  LET x == MarkKey(o)
             g == Values \cup Tables
             k == g \cup {x}
         IN  /\ Does(Collector, MarkLock(o), {}, FALSE, {x}, FALSE)
             /\ Does(Collector, <<<<"visit", "shade", o>>>>, {x}, FALSE, {x}, FALSE)
             /\ Does(Collector, MarkFree(o), {x}, FALSE, {}, FALSE)
             /\ Does(Collector, MarkLock(o), g, FALSE, k, FALSE)
             /\ Does(Collector, <<<<"visit", "mark", o>>>>, k, FALSE, k, FALSE)
             /\ Does(Collector, MarkFree(o), k, FALSE, g, FALSE)
<1> DEFINE x == MarkKey(o)
           g == Values \cup Tables
           k == g \cup {x}
<1>1. x \in Mutex /\ x \notin Values \cup Tables
  BY Kinds DEF Hashed
<1>2. /\ g \in SUBSET Mutex /\ k \in SUBSET Mutex /\ {} \in SUBSET Mutex
      /\ {x} \in SUBSET Mutex /\ {x} \cap (Values \cup Tables) = {}
      /\ {} \cup {x} = {x} /\ x \notin {} /\ x \notin g /\ Values \subseteq k /\ Zero \in g
  BY <1>1, Kinds DEF Values
<1>3. ScanSafe(Collector, {}) /\ ScanSafe(Collector, g)
  BY DEF ScanSafe, Values, Tables
<1> HIDE DEF x, g
<1>4. /\ Does(Collector, MarkLock(o), {}, FALSE, {} \cup {x}, FALSE)
      /\ Does(Collector, MarkFree(o), {} \cup {x}, FALSE, {}, FALSE)
      /\ ScanSafe(Collector, {} \cup {x})
      /\ Does(Collector, MarkLock(o), g, FALSE, k, FALSE)
      /\ Does(Collector, MarkFree(o), k, FALSE, g, FALSE)
      /\ ScanSafe(Collector, k)
  BY <1>2, <1>3, CollectorMark DEF x
<1>5. /\ Does(Collector, MarkLock(o), {}, FALSE, {x}, FALSE)
      /\ Does(Collector, MarkFree(o), {x}, FALSE, {}, FALSE)
      /\ ScanSafe(Collector, {x})
  BY <1>2, <1>4
<1> HIDE DEF k
<1>6. Does(Collector, <<<<"visit", "shade", o>>>>, {x}, FALSE, {x}, FALSE)
  BY <1>2, <1>5, DoesScanAndVisit
<1>7. Does(Collector, <<<<"visit", "mark", o>>>>, k, FALSE, k, FALSE)
  BY <1>2, <1>4, DoesScanAndVisit
<1> QED
  BY <1>4, <1>5, <1>6, <1>7 DEF g, k, x

LEMMA MarkRuns ==
  ASSUME NEW o \in Arr
  PROVE  Does(Collector, vartab_mark(o), {}, FALSE, {}, FALSE)
<1> DEFINE x == {MarkKey(o)}
           g == Values \cup Tables
           k == g \cup {MarkKey(o)}
           P(c, a, b) == Does(Collector, c, a, FALSE, b, FALSE)
           lk == MarkLock(o)
           fr == MarkFree(o)
           scan == <<<<"scan">>>>
           shade == <<<<"visit", "shade", o>>>>
           mark == <<<<"visit", "mark", o>>>>
           sync == FreeTables \o FreeAll \o lk \o shade \o fr \o LockAll \o LockTables
           middle == IF Marksync THEN sync ELSE <<>>
<1>1. /\ P(LockAll, {}, Values) /\ P(FreeAll, Values, {})
      /\ P(LockTables, Values, g) /\ P(FreeTables, g, Values)
  BY DoesLockAll, DoesFreeAll, TablesRun
<1>2. /\ P(lk, {}, x) /\ P(shade, x, x) /\ P(fr, x, {})
      /\ P(lk, g, k) /\ P(mark, k, k) /\ P(fr, k, g)
  BY VisitRuns
<1>3. P(scan, g, g)
  <2>1. g \in SUBSET Mutex /\ Values \subseteq g /\ ScanSafe(Collector, g)
    BY Kinds DEF ScanSafe, Values
  <2> QED
    BY <2>1, DoesScanAndVisit
<1>4. vartab_mark(o) = LockAll \o LockTables \o scan \o middle \o lk \o mark \o fr
                       \o FreeTables \o FreeAll
  BY DEF vartab_mark
<1> HIDE DEF scan, shade, mark, lk, fr, g, k, x
<1>5. P(sync, g, g)
  <2>1. P(FreeTables \o FreeAll, g, {})
    BY <1>1, DoesThen
  <2>2. P(FreeTables \o FreeAll \o lk, g, x)
    BY <1>2, <2>1, DoesThen
  <2>3. P(FreeTables \o FreeAll \o lk \o shade, g, x)
    BY <1>2, <2>2, DoesThen
  <2>4. P(FreeTables \o FreeAll \o lk \o shade \o fr, g, {})
    BY <1>2, <2>3, DoesThen
  <2>5. P(FreeTables \o FreeAll \o lk \o shade \o fr \o LockAll, g, Values)
    BY <1>1, <2>4, DoesThen
  <2> QED
    BY <1>1, <2>5, DoesThen
<1> HIDE DEF sync
<1>6. P(middle, g, g)
  <2>1. g \in SUBSET Mutex /\ FALSE \in BOOLEAN
    BY Kinds DEF g, Values
  <2>2. P(<<>>, g, g)
    BY <2>1, DoesNothing
  <2> QED
    BY <1>5, <2>2
<1> HIDE DEF middle
<1>7. P(LockAll \o LockTables, {}, g)
  BY <1>1, DoesThen
<1>8. P(LockAll \o LockTables \o scan, {}, g)
  BY <1>3, <1>7, DoesThen
<1>9. P(LockAll \o LockTables \o scan \o middle, {}, g)
  BY <1>6, <1>8, DoesThen
<1>10. P(LockAll \o LockTables \o scan \o middle \o lk, {}, k)
  BY <1>2, <1>9, DoesThen
<1>11. P(LockAll \o LockTables \o scan \o middle \o lk \o mark, {}, k)
  BY <1>2, <1>10, DoesThen
<1>12. P(LockAll \o LockTables \o scan \o middle \o lk \o mark \o fr, {}, g)
  BY <1>2, <1>11, DoesThen
<1>13. P(LockAll \o LockTables \o scan \o middle \o lk \o mark \o fr \o FreeTables, {}, Values)
  BY <1>1, <1>12, DoesThen
<1>14. P(LockAll \o LockTables \o scan \o middle \o lk \o mark \o fr \o FreeTables \o FreeAll,
         {}, {})
  BY <1>1, <1>13, DoesThen
<1> QED
  BY <1>4, <1>14
-----------------------------------------------------------------------------
(* The invariant: some states of the monitors fit what is held and what is  *)
(* known, and the code left leads from them to nothing held.                *)
Held(a) == {x \in Mutex : owner[x] = a}

(* What only a can write or, as a variable, refers with.                    *)
Owned(a, h) == {l \in Mutator : l = a} \cup {v \in Var : Key(v) \in h}

TornTold(a, h, l, k) ==
  /\ a \in Mutator /\ l \in Referring(a)
  /\ MayWrite(a, l, h) /\ MayRead(a, k, h) /\ h \cap Stripes # {}
  /\ IsRef(l) => k \in Referring(a) /\ val[k].data \in Cell

Told(a, s) ==
  /\ s.plain => a \in Mutator /\ ~IsRef(a)
  /\ \A v \in s.ref : Key(v) \in s.held /\ IsRef(v)
  /\ \A x \in s.mid : TornTold(a, s.held, x[1], x[2])
  /\ s.half => a \in Mutator /\ Vref \in s.held

TornBy(a, s, l) == (\E x \in s.mid : x[1] = l) \/ (s.half /\ l = a)

EndsCalm(a, c, s) == \E q \in BOOLEAN : Runs(a, c, s, Calm({}, q))

NeverRefs == \A l \in Never : ~IsRef(l)

WholeOrTorn(S) ==
  \A l \in Var \cup Mutator : Whole(val[l]) \/ \E a \in Actor : TornBy(a, S[a], l)

Fits(a, s) == s.held = Held(a) /\ Told(a, s) /\ EndsCalm(a, code[a], s)

Monitors(S) ==
  /\ S \in [Actor -> States]
  /\ \A a \in Actor : Fits(a, S[a])
  /\ NeverRefs
  /\ WholeOrTorn(S)

LInv == TypeOK /\ \E S : Monitors(S)

Words == /\ owner \in [Mutex -> Actor \cup {NoOne}]
         /\ val \in [Loc -> [type : Type, data : Data]]

LEMMA InstrArgs ==
  ASSUME NEW i \in Instruction
  PROVE  /\ i[1] \in {"lock", "free", "unlock", "type", "data", "put", "test", "follow",
                      "capture", "take", "scan", "visit"}
         /\ i[1] \in {"lock", "free"} => i[2] \in Mutex
         /\ i[1] \in {"type", "data"} => i[2] \in Loc /\ i[3] \in Loc
         /\ i[1] = "put" => /\ i[2] \in {"type", "data"} /\ i[3] \in Loc
                            /\ i[2] = "type" => i[4] \in Type
                            /\ i[2] = "data" => i[4] \in Data
         /\ i[1] \in {"test", "follow"} => i[2] \in Accesses /\ i[3] \in Loc
         /\ i[1] = "capture" => i[2] \in Var
         /\ i[1] = "visit" => i[2] \in {"shade", "mark"} /\ i[3] \in Arr
BY DEF Instruction

(* The next instruction, and what is left behind it.                        *)
LEMMA Front ==
  ASSUME NEW S, Monitors(S), NEW a \in Actor, code[a] # <<>>
  PROVE  \E u \in States : /\ Leads(a, Head(code[a]), S[a], u)
                           /\ EndsCalm(a, Tail(code[a]), u)
<1>1. PICK q \in BOOLEAN : Runs(a, code[a], S[a], Calm({}, q))
  BY DEF Monitors, Fits, EndsCalm
<1>2. PICK u \in States : Leads(a, Head(code[a]), S[a], u) /\ Runs(a, Tail(code[a]), u, Calm({}, q))
  BY <1>1, RunsTail
<1> QED
  BY <1>2 DEF EndsCalm

LEMMA EndsAfter ==
  ASSUME NEW a, NEW c, NEW d, NEW s, NEW t, Runs(a, c, s, t), EndsCalm(a, d, t)
  PROVE  EndsCalm(a, c \o d, s)
BY RunsThen DEF EndsCalm

LEMMA EndsTyped ==
  ASSUME NEW a, NEW c, NEW s, EndsCalm(a, c, s)
  PROVE  c \in Seq(Instruction)
BY DEF EndsCalm, Runs

(* What the thread is told of values holds as long as nobody else writes    *)
(* what it owns.                                                            *)
LEMMA ToldKept ==
  ASSUME NEW a \in Actor, NEW s \in States, Told(a, s),
         \A l \in Owned(a, s.held) : val'[l] = val[l]
  PROVE  Told(a, s)'
<1>1. ASSUME s.plain PROVE a \in Mutator /\ ~IsRef(a)'
  BY <1>1 DEF Told, Owned, IsRef
<1>2. ASSUME NEW v \in s.ref PROVE Key(v) \in s.held /\ IsRef(v)'
  BY DEF Told, Owned, IsRef, States
<1>3. ASSUME NEW x \in s.mid PROVE TornTold(a, s.held, x[1], x[2])'
  <2> DEFINE l == x[1]
             k == x[2]
  <2>1. TornTold(a, s.held, l, k)
    BY DEF Told
  <2> HIDE DEF l, k
  <2>2. l \in Owned(a, s.held)
    BY <2>1 DEF TornTold, Referring, MayWrite, Owned
  <2>3. k \in Referring(a) => k \in Owned(a, s.held)
    BY <2>1 DEF TornTold, Referring, MayRead, Owned
  <2>4. IsRef(l)' => k \in Referring(a) /\ val'[k].data \in Cell
    BY <2>1, <2>2, <2>3 DEF TornTold, IsRef
  <2>5. TornTold(a, s.held, l, k)'
    BY <2>1, <2>4 DEF TornTold
  <2> QED
    BY <2>5 DEF l, k
<1>4. s.half => a \in Mutator /\ Vref \in s.held
  BY DEF Told
<1> QED
  BY <1>1, <1>2, <1>3, <1>4 DEF Told

(* Thread a moves on to the code c and its monitor to the state t.          *)
LEMMA MonitorsStep ==
  ASSUME TypeOK, NEW S, Monitors(S), NEW a \in Actor, NEW t \in States, NEW c,
         code' = [code EXCEPT ![a] = c], EndsCalm(a, c, t), t.held = Held(a)',
         \A b \in Actor \ {a} : Held(b)' = Held(b),
         \A b \in Actor \ {a} : \A l \in Owned(b, Held(b)) : val'[l] = val[l],
         Told(a, t)', NeverRefs', Words',
         \A l \in Var \cup Mutator :
           \/ Whole(val'[l]) \/ TornBy(a, t, l)
           \/ val'[l] = val[l] /\ ~TornBy(a, S[a], l)
  PROVE  LInv'
<1> DEFINE T == [S EXCEPT ![a] = t]
<1>1. S \in [Actor -> States] /\ code \in [Actor -> Seq(Instruction)]
  BY DEF Monitors, TypeOK
<1>2. T \in [Actor -> States] /\ T[a] = t /\ \A b \in Actor \ {a} : T[b] = S[b]
  BY <1>1
<1>3. code'[a] = c /\ \A b \in Actor \ {a} : code'[b] = code[b]
  BY <1>1
<1>4. TypeOK'
  <2>1. c \in Seq(Instruction)
    BY EndsTyped
  <2>2. code' \in [Actor -> Seq(Instruction)]
    BY <1>1, <2>1
  <2> QED
    BY <2>2 DEF TypeOK, Words
<1> HIDE DEF T
<1>5. ASSUME NEW b \in Actor PROVE Fits(b, T[b])'
  <2>1. CASE b = a
    BY <1>2, <1>3, <2>1 DEF Fits
  <2>2. CASE b # a
    <3>1. S[b] \in States /\ S[b].held = Held(b) /\ Told(b, S[b]) /\ EndsCalm(b, code[b], S[b])
      BY <1>1 DEF Monitors, Fits
    <3>2. Told(b, S[b])'
      BY <2>2, <3>1, ToldKept
    <3> QED
      BY <1>2, <1>3, <2>2, <3>1, <3>2 DEF Fits
  <2> QED
    BY <2>1, <2>2
<1>6. WholeOrTorn(T)'
  <2> SUFFICES ASSUME NEW l \in Var \cup Mutator
               PROVE  Whole(val'[l]) \/ \E b \in Actor : TornBy(b, T[b], l)
    BY DEF WholeOrTorn
  <2>1. CASE val'[l] = val[l] /\ ~TornBy(a, S[a], l)
    <3>1. Whole(val[l]) \/ \E b \in Actor : TornBy(b, S[b], l)
      BY DEF Monitors, WholeOrTorn
    <3>2. ASSUME NEW b \in Actor, TornBy(b, S[b], l) PROVE TornBy(b, T[b], l)
      <4>1. b # a
        BY <2>1, <3>2
      <4> QED
        BY <1>2, <3>2, <4>1
    <3> QED
      BY <2>1, <3>1, <3>2
  <2> QED
    BY <1>2, <2>1
<1>7. Monitors(T)'
  BY <1>2, <1>5, <1>6 DEF Monitors
<1> QED
  BY <1>4, <1>7 DEF LInv

(* Only the code of a changes.                                              *)
LEMMA QuietStep ==
  ASSUME TypeOK, NEW S, Monitors(S), NEW a \in Actor, NEW t \in States, NEW c,
         code' = [code EXCEPT ![a] = c], EndsCalm(a, c, t), t.held = S[a].held,
         Whole2(S[a]), Told(a, t), UNCHANGED <<owner, val>>
  PROVE  LInv'
<1>1. \A b : Held(b)' = Held(b)
  BY DEF Held
<1>2. t.held = Held(a)'
  BY <1>1 DEF Monitors, Fits
<1>3. Told(a, t)' /\ NeverRefs' /\ Words'
  <2>1. Told(a, t)'
    BY ToldKept
  <2>2. NeverRefs'
    BY DEF Monitors, NeverRefs, IsRef
  <2>3. Words'
    BY DEF TypeOK, Words
  <2> QED
    BY <2>1, <2>2, <2>3
<1>4. \A l : val'[l] = val[l] /\ ~TornBy(a, S[a], l)
  BY DEF Whole2, TornBy
<1> QED
  BY <1>1, <1>2, <1>3, <1>4, MonitorsStep

(* Only the mutexes and the code of a change.                               *)
LEMMA MutexStep ==
  ASSUME TypeOK, NEW S, Monitors(S), NEW a \in Actor, NEW t \in States,
         code[a] # <<>>, code' = [code EXCEPT ![a] = Tail(code[a])],
         EndsCalm(a, Tail(code[a]), t), t.held = Held(a)',
         \A b \in Actor \ {a} : Held(b)' = Held(b), Whole2(S[a]),
         t = State(t.held, {}, FALSE, S[a].plain, t.ref), RefKept(S[a], t),
         owner' \in [Mutex -> Actor \cup {NoOne}], val' = val
  PROVE  LInv'
<1>1. Told(a, S[a])
  BY DEF Monitors, Fits
<1>2. t.plain = S[a].plain /\ t.mid = {} /\ t.half = FALSE
  BY DEF State
<1>3. Told(a, t)
  BY <1>1, <1>2 DEF Told, RefKept
<1>4. Told(a, t)' /\ NeverRefs' /\ Words'
  <2>1. Told(a, t)'
    BY <1>3, ToldKept
  <2>2. NeverRefs'
    BY DEF Monitors, NeverRefs, IsRef
  <2>3. Words'
    BY DEF TypeOK, Words
  <2> QED
    BY <2>1, <2>2, <2>3
<1>5. \A l : val'[l] = val[l] /\ ~TornBy(a, S[a], l)
  BY DEF Whole2, TornBy
<1> QED
  BY <1>4, <1>5, MonitorsStep

-----------------------------------------------------------------------------
(* Each action keeps the invariant: the mutexes first.                      *)

LEMMA ContinueThen ==
  ASSUME TypeOK, NEW a \in Actor, code[a] # <<>>, NEW s, Continue(a, s)
  PROVE  /\ code' = [code EXCEPT ![a] = s \o Tail(code[a])]
         /\ s = <<>> => code' = [code EXCEPT ![a] = Tail(code[a])]
         /\ Tail(code[a]) \in Seq(Instruction)
<1>1. code[a] \in Seq(Instruction)
  BY DEF TypeOK
<1>2. Tail(code[a]) \in Seq(Instruction)
  BY <1>1
<1>3. <<>> \o Tail(code[a]) = Tail(code[a])
  BY <1>2
<1> QED
  BY <1>2, <1>3 DEF Continue

LEMMA StateFacts ==
  ASSUME NEW S, Monitors(S), NEW a \in Actor
  PROVE  /\ S[a] \in States /\ S[a].held = Held(a) /\ Told(a, S[a])
         /\ S[a].held \in SUBSET Mutex /\ S[a].plain \in BOOLEAN
BY DEF Monitors, Fits, States, Held

LEMMA DoLockStep ==
  ASSUME LInv, NEW a \in Actor, DoLock(a)
  PROVE  LInv'
<1>1. PICK S : Monitors(S)
  BY DEF LInv
<1> DEFINE m == Arg(a, 2)
<1>2. code[a] # <<>> /\ Head(code[a])[1] = "lock" /\ TypeOK
  BY DEF LInv, DoLock, At
<1>3. PICK u \in States : /\ Leads(a, Head(code[a]), S[a], u)
                          /\ EndsCalm(a, Tail(code[a]), u)
  BY <1>1, <1>2, Front
<1>4. LeadsLock(a, m, S[a], u) /\ m \in Mutex
  BY <1>2, <1>3, InstrArgs DEF Leads, Arg
<1>5. owner[m] = NoOne /\ owner' = [owner EXCEPT ![m] = a] /\ val' = val
      /\ owner \in [Mutex -> Actor \cup {NoOne}] /\ Continue(a, <<>>)
  BY <1>2 DEF DoLock, TypeOK
<1> HIDE DEF m
<1>6. code' = [code EXCEPT ![a] = Tail(code[a])]
  BY <1>2, <1>5, ContinueThen
<1>7. /\ owner' \in [Mutex -> Actor \cup {NoOne}]
      /\ Held(a)' = Held(a) \cup {m}
      /\ \A b \in Actor \ {a} : Held(b)' = Held(b)
  BY <1>4, <1>5, NameAssumption DEF Held
<1>8. /\ Whole2(S[a]) /\ RefKept(S[a], u)
      /\ u = State(S[a].held \cup {m}, {}, FALSE, S[a].plain, u.ref)
  BY <1>4 DEF LeadsLock
<1>9. u.held = S[a].held \cup {m} /\ S[a].held = Held(a)
  BY <1>1, <1>8, StateFacts DEF State
<1>10. u.held = Held(a)' /\ u = State(u.held, {}, FALSE, S[a].plain, u.ref)
  BY <1>7, <1>8, <1>9
<1> QED
  BY <1>1, <1>2, <1>3, <1>5, <1>6, <1>7, <1>8, <1>10, MutexStep

LEMMA DoFreeStep ==
  ASSUME LInv, NEW a \in Actor, DoFree(a)
  PROVE  LInv'
<1>1. PICK S : Monitors(S)
  BY DEF LInv
<1> DEFINE m == Arg(a, 2)
<1>2. code[a] # <<>> /\ Head(code[a])[1] = "free" /\ TypeOK
  BY DEF LInv, DoFree, At
<1>3. PICK u \in States : /\ Leads(a, Head(code[a]), S[a], u)
                          /\ EndsCalm(a, Tail(code[a]), u)
  BY <1>1, <1>2, Front
<1>4. LeadsFree(m, S[a], u) /\ m \in Mutex
  BY <1>2, <1>3, InstrArgs DEF Leads, Arg
<1>5. owner' = [owner EXCEPT ![m] = NoOne] /\ val' = val
      /\ owner \in [Mutex -> Actor \cup {NoOne}] /\ Continue(a, <<>>)
  BY <1>2 DEF DoFree, TypeOK
<1> HIDE DEF m
<1>6. code' = [code EXCEPT ![a] = Tail(code[a])]
  BY <1>2, <1>5, ContinueThen
<1>7. S[a].held = Held(a) /\ m \in Held(a)
  BY <1>1, <1>4, StateFacts DEF LeadsFree
<1>8. /\ owner' \in [Mutex -> Actor \cup {NoOne}]
      /\ Held(a)' = Held(a) \ {m}
      /\ \A b \in Actor \ {a} : Held(b)' = Held(b)
  BY <1>4, <1>5, <1>7, NameAssumption DEF Held
<1>9. /\ Whole2(S[a]) /\ RefKept(S[a], u)
      /\ u = State(S[a].held \ {m}, {}, FALSE, S[a].plain, u.ref)
  BY <1>4 DEF LeadsFree
<1>10. u.held = S[a].held \ {m}
  BY <1>9 DEF State
<1>11. u.held = Held(a)' /\ u = State(u.held, {}, FALSE, S[a].plain, u.ref)
  BY <1>7, <1>8, <1>9, <1>10
<1> QED
  BY <1>1, <1>2, <1>3, <1>5, <1>6, <1>8, <1>9, <1>11, MutexStep

LEMMA DoUnlockStep ==
  ASSUME LInv, NEW a \in Actor, DoUnlock(a)
  PROVE  LInv'
<1>1. PICK S : Monitors(S)
  BY DEF LInv
<1>2. code[a] # <<>> /\ Head(code[a])[1] = "unlock" /\ TypeOK
  BY DEF LInv, DoUnlock, At
<1>3. PICK u \in States : /\ Leads(a, Head(code[a]), S[a], u)
                          /\ EndsCalm(a, Tail(code[a]), u)
  BY <1>1, <1>2, Front
<1>4. LeadsUnlock(S[a], u)
  BY <1>2, <1>3 DEF Leads
<1>5. /\ owner' = [m \in Mutex |-> IF m \in Stripes /\ owner[m] = a THEN NoOne
                                                                    ELSE owner[m]]
      /\ val' = val /\ Continue(a, <<>>)
      /\ owner \in [Mutex -> Actor \cup {NoOne}]
  <2>1. \A m \in Mutex : m[1] = "value" /\ m[2] > 0 /\ owner[m] = a
                           <=> m \in Stripes /\ owner[m] = a
    BY Kinds
  <2> QED
    BY <1>2, <2>1 DEF DoUnlock, TypeOK
<1>6. code' = [code EXCEPT ![a] = Tail(code[a])]
  BY <1>2, <1>5, ContinueThen
<1>7. S[a].held = Held(a)
  BY <1>1, StateFacts
<1>8. /\ owner' \in [Mutex -> Actor \cup {NoOne}]
      /\ Held(a)' = Held(a) \ Stripes
      /\ \A b \in Actor \ {a} : Held(b)' = Held(b)
  BY <1>5, NameAssumption DEF Held
<1>9. /\ Whole2(S[a]) /\ RefKept(S[a], u)
      /\ u = State(S[a].held \ Stripes, {}, FALSE, S[a].plain, u.ref)
  BY <1>4 DEF LeadsUnlock
<1>10. u.held = S[a].held \ Stripes
  BY <1>9 DEF State
<1>11. u.held = Held(a)' /\ u = State(u.held, {}, FALSE, S[a].plain, u.ref)
  BY <1>7, <1>8, <1>9, <1>10
<1> QED
  BY <1>1, <1>2, <1>3, <1>5, <1>6, <1>8, <1>9, <1>11, MutexStep

(* The steps by which a thread finds out how to go on.                      *)

LEMMA TellsCalm ==
  ASSUME NEW a \in Actor, NEW h \in SUBSET Mutex, NEW p \in BOOLEAN,
         p => a \in Mutator /\ ~IsRef(a)
  PROVE  Told(a, Calm(h, p))
BY CalmFacts DEF Told

LEMMA DoTestStep ==
  ASSUME LInv, NEW a \in Actor, DoTest(a)
  PROVE  LInv'
<1>1. PICK S : Monitors(S)
  BY DEF LInv
<1> DEFINE how == Arg(a, 2)
           v == Arg(a, 3)
           h == S[a].held
           p == S[a].plain
           t == IF IsRef(v) THEN FollowState(h, p, v) ELSE Calm(h, p)
<1>2. code[a] # <<>> /\ Head(code[a])[1] = "test" /\ TypeOK
  BY DEF LInv, DoTest, At
<1>3. PICK u \in States : /\ Leads(a, Head(code[a]), S[a], u)
                          /\ EndsCalm(a, Tail(code[a]), u)
  BY <1>1, <1>2, Front
<1>4. LeadsTest(a, how, v, S[a], u) /\ how \in Accesses /\ v \in Loc /\ ScanSafe(a, h)
  BY <1>2, <1>3, InstrArgs DEF Leads, Arg
<1>5. Continue(a, Tested(a, how, v)) /\ UNCHANGED <<owner, val>>
  BY DEF DoTest
<1>6. h \in SUBSET Mutex /\ p \in BOOLEAN /\ Told(a, S[a])
  BY <1>1, StateFacts
<1> HIDE DEF how, v
<1>7. code' = [code EXCEPT ![a] = Tested(a, how, v) \o Tail(code[a])]
  BY <1>2, <1>5, ContinueThen
<1>8. /\ Whole2(S[a]) /\ MayTest(a, how, v, p, h)
      /\ u = Calm(Left(how, h), Still(how))
  BY <1>4 DEF LeadsTest
<1>9. IsRef(v) => v \in Var \cup Mutator
  BY <1>1, <1>4 DEF Monitors, NeverRefs, Never, Loc
<1>10. IsRef(v) /\ v \in Var => Key(v) \in h
  <2>1. v \in Var => Key(v) \in Values
    BY <1>4, Kinds, LocKinds DEF Values
  <2> QED
    BY <1>8, <2>1 DEF MayTest
<1>11. p => a \in Mutator /\ ~IsRef(a)
  BY <1>6 DEF Told
<1>12. Following(FollowState(h, p, v), h, p, v)
  BY <1>6, FollowStateFacts
<1> HIDE DEF h, p
<1>13. Runs(a, Tested(a, how, v), t, u)
  BY <1>4, <1>6, <1>8, <1>9, TestedRuns
<1>14. EndsCalm(a, Tested(a, how, v) \o Tail(code[a]), t)
  BY <1>3, <1>13, EndsAfter
<1>15. t \in States /\ t.held = h /\ Told(a, t)
  <2>1. CASE IsRef(v)
    <3> DEFINE f == FollowState(h, p, v)
    <3>1. t = f /\ Following(f, h, p, v)
      BY <1>12, <2>1
    <3> HIDE DEF f, t
    <3>2. /\ f \in States /\ f.held = h /\ f.plain = p /\ f.mid = {} /\ f.half = FALSE
          /\ \A x \in f.ref : x = v /\ v \in Var
      BY <3>1 DEF Following, Whole2
    <3>3. Told(a, f)
      BY <1>10, <1>11, <2>1, <3>2 DEF Told
    <3> QED
      BY <3>1, <3>2, <3>3
  <2>2. CASE ~IsRef(v)
    <3>1. t = Calm(h, p)
      BY <2>2
    <3> HIDE DEF t
    <3> QED
      BY <1>6, <1>11, <3>1, CalmFacts, TellsCalm
  <2> QED
    BY <2>1, <2>2
<1> HIDE DEF t
<1> QED
  BY <1>1, <1>2, <1>5, <1>7, <1>8, <1>14, <1>15, QuietStep DEF h

LEMMA DoFollowStep ==
  ASSUME LInv, NEW a \in Actor, DoFollow(a)
  PROVE  LInv'
<1>1. PICK S : Monitors(S)
  BY DEF LInv
<1> DEFINE how == Arg(a, 2)
           v == Arg(a, 3)
           h == S[a].held
           p == S[a].plain
           t == Calm(h, p)
<1>2. code[a] # <<>> /\ Head(code[a])[1] = "follow" /\ TypeOK
  BY DEF LInv, DoFollow, At
<1>3. PICK u \in States : /\ Leads(a, Head(code[a]), S[a], u)
                          /\ EndsCalm(a, Tail(code[a]), u)
  BY <1>1, <1>2, Front
<1>4. LeadsFollow(a, how, v, S[a], u) /\ how \in Accesses /\ v \in Loc /\ ScanSafe(a, h)
  BY <1>2, <1>3, InstrArgs DEF Leads, Arg
<1>5. PICK c \in Cell : Continue(a, Followed(a, how, v, c))
  BY DEF DoFollow
<1>6. h \in SUBSET Mutex /\ p \in BOOLEAN /\ Told(a, S[a])
  BY <1>1, StateFacts
<1>7. UNCHANGED <<owner, val>>
  BY DEF DoFollow
<1> HIDE DEF how, v
<1>8. code' = [code EXCEPT ![a] = Followed(a, how, v, c) \o Tail(code[a])]
  BY <1>2, <1>5, ContinueThen
<1>9. /\ Whole2(S[a]) /\ MayFollow(a, how, v, p, h)
      /\ u = Calm(Left(how, h), Still(how))
  BY <1>4 DEF LeadsFollow
<1>10. p => a \in Mutator /\ ~IsRef(a)
  BY <1>6 DEF Told
<1> HIDE DEF h, p
<1>11. Runs(a, Followed(a, how, v, c), t, u)
  BY <1>4, <1>6, <1>9, FollowedRuns DEF Does
<1>12. t \in States /\ t.held = h /\ Told(a, t)
  BY <1>6, <1>10, CalmFacts, TellsCalm
<1> HIDE DEF t
<1>13. EndsCalm(a, Followed(a, how, v, c) \o Tail(code[a]), t)
  BY <1>3, <1>11, EndsAfter
<1> QED
  BY <1>1, <1>2, <1>7, <1>8, <1>9, <1>12, <1>13, QuietStep DEF h

LEMMA DoCaptureStep ==
  ASSUME LInv, NEW a \in Mutator, DoCapture(a)
  PROVE  LInv'
<1>1. PICK S : Monitors(S)
  BY DEF LInv
<1> DEFINE v == Arg(a, 2)
           c == IF IsRef(a) THEN <<>> ELSE vref_new(a) \o copy(v, a)
           t == Calm({}, ~IsRef(a))
<1>2. code[a] # <<>> /\ Head(code[a])[1] = "capture" /\ TypeOK /\ a \in Actor
  BY LocKinds DEF LInv, DoCapture, At
<1>3. PICK u \in States : /\ Leads(a, Head(code[a]), S[a], u)
                          /\ EndsCalm(a, Tail(code[a]), u)
  BY <1>1, <1>2, Front
<1>4. LeadsCapture(a, S[a], u) /\ v \in Var
  BY <1>2, <1>3, InstrArgs DEF Leads, Arg
<1>5. Continue(a, c) /\ UNCHANGED <<owner, val>>
  BY DEF DoCapture
<1> HIDE DEF v
<1>6. Whole2(S[a]) /\ S[a].held = {} /\ u = Calm({}, FALSE)
  BY <1>4 DEF LeadsCapture
<1>7. /\ {} \in SUBSET Mutex /\ (~IsRef(a)) \in BOOLEAN
      /\ t \in States /\ t.held = {} /\ Told(a, t)
  BY <1>2, CalmFacts, TellsCalm
<1>8. Runs(a, c, t, u)
  <2>1. CASE IsRef(a)
    <3>1. c = <<>> /\ t = u
      BY <1>6, <2>1
    <3> HIDE DEF c, t
    <3> QED
      BY <1>3, <3>1, RunsNothing
  <2>2. CASE ~IsRef(a)
    <3>1. c = vref_new(a) \o copy(v, a) /\ t = Calm({}, TRUE)
      BY <2>2
    <3> HIDE DEF c, t
    <3>2. Does(a, vref_new(a) \o copy(v, a), {}, TRUE, {}, FALSE)
      BY <1>4, CapturedRuns
    <3> QED
      BY <1>6, <3>1, <3>2 DEF Does
  <2> QED
    BY <2>1, <2>2
<1> HIDE DEF t, c
<1>9. code' = [code EXCEPT ![a] = c \o Tail(code[a])]
  BY <1>2, <1>5, ContinueThen
<1>10. EndsCalm(a, c \o Tail(code[a]), t)
  BY <1>3, <1>8, EndsAfter
<1> QED
  BY <1>1, <1>2, <1>5, <1>6, <1>7, <1>9, <1>10, QuietStep

LEMMA DoTakeStep ==
  ASSUME LInv, NEW a \in Mutator, DoTake(a)
  PROVE  LInv'
<1>1. PICK S : Monitors(S)
  BY DEF LInv
<1> DEFINE again == <<<<"free", <<"vref", 0>>>>>> \o vref_new(a)
           t == Calm({Vref}, TRUE)
<1>2. code[a] # <<>> /\ Head(code[a])[1] = "take" /\ TypeOK /\ a \in Actor
  BY LocKinds DEF LInv, DoTake, At
<1>3. PICK u \in States : /\ Leads(a, Head(code[a]), S[a], u)
                          /\ EndsCalm(a, Tail(code[a]), u)
  BY <1>1, <1>2, Front
<1>4. LeadsTake(a, S[a], u)
  BY <1>2, <1>3 DEF Leads
<1>5. /\ UNCHANGED <<owner, val>>
      /\ (\E c \in Cell : Continue(a, Taken(a, c))) \/ Continue(a, again)
  BY DEF DoTake
<1>6. Whole2(S[a]) /\ S[a].held = {Vref} /\ u = Calm({}, FALSE) /\ S[a].plain
  BY <1>4 DEF LeadsTake
<1>7. a \in Mutator /\ ~IsRef(a)
  BY <1>1, <1>2, <1>6, StateFacts DEF Told
<1>8. t \in States /\ t.held = {Vref} /\ Told(a, t)
  <2>1. {Vref} \in SUBSET Mutex
    BY Kinds
  <2> QED
    BY <1>2, <1>7, <2>1, CalmFacts, TellsCalm
<1>9. \E c : Continue(a, c) /\ Runs(a, c, t, u)
  <2>1. Runs(a, again, t, u)
    BY <1>6, CapturedRuns DEF Does
  <2>2. \A c \in Cell : Runs(a, Taken(a, c), t, u)
    BY <1>6, TakenRuns DEF Does
  <2> HIDE DEF t, again
  <2> QED
    BY <1>5, <2>1, <2>2
<1> HIDE DEF t
<1>10. PICK c : Continue(a, c) /\ Runs(a, c, t, u)
  BY <1>9
<1>11. code' = [code EXCEPT ![a] = c \o Tail(code[a])]
  BY <1>2, <1>10, ContinueThen
<1>12. EndsCalm(a, c \o Tail(code[a]), t)
  BY <1>3, <1>10, EndsAfter
<1> QED
  BY <1>1, <1>2, <1>5, <1>6, <1>8, <1>11, <1>12, QuietStep

(* The collector picks the next value.                                      *)
LEMMA CollectorStep ==
  ASSUME LInv, NEW S, Monitors(S), NEW c, Continue(Collector, c),
         code[Collector] # <<>>, UNCHANGED <<owner, val>>, NEW u \in States,
         EndsCalm(Collector, Tail(code[Collector]), u),
         Whole2(S[Collector]), u = Calm(S[Collector].held, FALSE),
         Does(Collector, c, S[Collector].held, FALSE, S[Collector].held, FALSE)
  PROVE  LInv'
<1>1. Collector \in Actor /\ TypeOK
  BY LocKinds DEF LInv
<1>2. S[Collector].held \in SUBSET Mutex
  BY <1>1, StateFacts
<1>3. u.held = S[Collector].held /\ Told(Collector, u)
  BY <1>1, <1>2, CalmFacts, TellsCalm
<1>4. Runs(Collector, c, u, u)
  BY DEF Does
<1>5. code' = [code EXCEPT ![Collector] = c \o Tail(code[Collector])]
  BY <1>1, ContinueThen
<1>6. EndsCalm(Collector, c \o Tail(code[Collector]), u)
  BY <1>4, EndsAfter
<1> QED
  BY <1>1, <1>3, <1>5, <1>6, QuietStep

LEMMA DoScanStep ==
  ASSUME LInv, DoScan
  PROVE  LInv'
<1>1. PICK S : Monitors(S)
  BY DEF LInv
<1> DEFINE h == S[Collector].held
<1>2. code[Collector] # <<>> /\ Head(code[Collector])[1] = "scan" /\ Collector \in Actor
  BY LocKinds DEF DoScan, At
<1>3. PICK u \in States : /\ Leads(Collector, Head(code[Collector]), S[Collector], u)
                          /\ EndsCalm(Collector, Tail(code[Collector]), u)
  BY <1>1, <1>2, Front
<1>4. LeadsScan(Collector, S[Collector], u)
  BY <1>2, <1>3 DEF Leads
<1>5. PICK v \in Var \cup Mutator : Continue(Collector, vartab_shade(v))
  BY DEF DoScan
<1>6. /\ Whole2(S[Collector]) /\ Values \subseteq h /\ u = Calm(h, FALSE)
      /\ h \in SUBSET Mutex /\ v \in Loc /\ v \in Var \cup Elem \cup Mutator
  BY <1>1, <1>2, <1>4, StateFacts DEF LeadsScan, Loc
<1>7. Does(Collector, vartab_shade(v), h, FALSE, h, FALSE)
  BY <1>6, ShadeRuns
<1>8. UNCHANGED <<owner, val>>
  BY DEF DoScan
<1> QED
  BY <1>1, <1>2, <1>3, <1>5, <1>6, <1>7, <1>8, CollectorStep

LEMMA DoVisitStep ==
  ASSUME LInv, DoVisit
  PROVE  LInv'
<1>1. PICK S : Monitors(S)
  BY DEF LInv
<1> DEFINE h == S[Collector].held
           how == Arg(Collector, 2)
<1>2. code[Collector] # <<>> /\ Head(code[Collector])[1] = "visit" /\ Collector \in Actor
  BY LocKinds DEF DoVisit, At
<1>3. PICK u \in States : /\ Leads(Collector, Head(code[Collector]), S[Collector], u)
                          /\ EndsCalm(Collector, Tail(code[Collector]), u)
  BY <1>1, <1>2, Front
<1>4. LeadsVisit(Collector, how, S[Collector], u)
  BY <1>2, <1>3 DEF Leads, Arg
<1>5. PICK v \in Var \cup Elem :
        Continue(Collector, IF how = "shade" THEN vartab_shade_lk(v) ELSE vartab_shade(v))
  BY DEF DoVisit
<1> HIDE DEF how
<1>6. /\ Whole2(S[Collector]) /\ u = Calm(h, FALSE) /\ h \in SUBSET Mutex
      /\ v \in Loc /\ v \in Var \cup Elem \cup Mutator
  BY <1>1, <1>2, <1>4, StateFacts DEF LeadsVisit, Loc
<1>7. UNCHANGED <<owner, val>>
  BY DEF DoVisit
<1>8. CASE how = "shade"
  <2>1. h \cap (Values \cup Tables) = {}
    BY <1>4, <1>8 DEF LeadsVisit
  <2>2. Does(Collector, vartab_shade_lk(v), h, FALSE, h, FALSE)
    BY <1>6, <2>1, ShadeLockRuns
  <2> QED
    BY <1>1, <1>2, <1>3, <1>5, <1>6, <1>7, <1>8, <2>2, CollectorStep
<1>9. CASE how # "shade"
  <2>1. Values \subseteq h
    BY <1>4, <1>9 DEF LeadsVisit
  <2>2. Does(Collector, vartab_shade(v), h, FALSE, h, FALSE)
    BY <1>6, <2>1, ShadeRuns
  <2> QED
    BY <1>1, <1>2, <1>3, <1>5, <1>6, <1>7, <1>9, <2>2, CollectorStep
<1> QED
  BY <1>8, <1>9

(* A thread with nothing left to execute holds nothing, and a new operation *)
(* begins so.                                                               *)
LEMMA Idle ==
  ASSUME NEW S, Monitors(S), NEW a \in Actor, code[a] = <<>>
  PROVE  S[a].held = {} /\ Whole2(S[a])
<1>1. PICK q \in BOOLEAN : Runs(a, <<>>, S[a], Calm({}, q))
  BY DEF Monitors, Fits, EndsCalm
<1>2. PICK F : F[1] = S[a] /\ F[Len(<<>>)+1] = Calm({}, q)
  BY <1>1 DEF Runs
<1>3. Len(<<>>) + 1 = 1
  OBVIOUS
<1>4. S[a] = Calm({}, q)
  BY <1>2, <1>3
<1>5. {} \in SUBSET Mutex
  OBVIOUS
<1>6. Calm({}, q).held = {} /\ Whole2(Calm({}, q))
  BY <1>5, CalmFacts
<1> QED
  BY <1>4, <1>6

LEMMA BeginStep ==
  ASSUME LInv, NEW a \in Actor, code[a] = <<>>, NEW c, NEW p \in BOOLEAN,
         code' = [code EXCEPT ![a] = c], UNCHANGED <<owner, val>>,
         p => a \in Mutator /\ ~IsRef(a),
         \E q \in BOOLEAN : Does(a, c, {}, p, {}, q)
  PROVE  LInv'
<1>1. PICK S : Monitors(S)
  BY DEF LInv
<1> DEFINE t == Calm({}, p)
<1>2. S[a].held = {} /\ Whole2(S[a]) /\ TypeOK
  BY <1>1, Idle DEF LInv
<1>3. {} \in SUBSET Mutex
  OBVIOUS
<1>4. t \in States /\ t.held = {} /\ Told(a, t)
  BY <1>3, CalmFacts, TellsCalm
<1>5. EndsCalm(a, c, t)
  BY DEF EndsCalm, Does
<1> HIDE DEF t
<1> QED
  BY <1>1, <1>2, <1>4, <1>5, QuietStep

LEMMA BeginsStep ==
  ASSUME LInv, NEW m \in Mutator, Begin(m)
  PROVE  LInv'
<1>1. PICK s \in Operations(m) \cup (IF IsRef(m) THEN {} ELSE Stores(m)) :
        code' = [code EXCEPT ![m] = s]
  BY DEF Begin
<1>2. code[m] = <<>> /\ UNCHANGED <<owner, val>> /\ m \in Actor
  BY LocKinds DEF Begin
<1>3. CASE s \in Operations(m)
  <2>1. \E q \in BOOLEAN : Does(m, s, {}, FALSE, {}, q)
    BY <1>3, OperationRuns
  <2> QED
    BY <1>1, <1>2, <2>1, BeginStep
<1>4. CASE s \in Stores(m) /\ ~IsRef(m)
  <2>1. \E q \in BOOLEAN : Does(m, s, {}, TRUE, {}, q)
    BY <1>4, StoringRuns
  <2> QED
    BY <1>1, <1>2, <1>4, <2>1, BeginStep
<1> QED
  BY <1>1, <1>3, <1>4

LEMMA BeginMarkStep ==
  ASSUME LInv, BeginMark
  PROVE  LInv'
<1>1. PICK o \in Arr : code' = [code EXCEPT ![Collector] = vartab_mark(o)]
  BY DEF BeginMark
<1>2. Does(Collector, vartab_mark(o), {}, FALSE, {}, FALSE)
  BY MarkRuns
<1>3. code[Collector] = <<>> /\ UNCHANGED <<owner, val>> /\ Collector \in Actor
  BY LocKinds DEF BeginMark
<1> QED
  BY <1>1, <1>2, <1>3, BeginStep

-----------------------------------------------------------------------------
(* The steps that write: a mutex of the location keeps the others away.     *)

LEMMA Exclusive ==
  ASSUME NEW a \in Actor, NEW b \in Actor \ {a}, NEW l \in Loc,
         MayWrite(a, l, Held(a))
  PROVE  l \notin Owned(b, Held(b))
<1>1. ~(l \in Mutator /\ l = b)
  BY DEF MayWrite
<1>2. ~(l \in Var /\ Key(l) \in Held(b))
  BY DEF MayWrite, Held
<1> QED
  BY <1>1, <1>2 DEF Owned

(* What a thread owns is whole while it has nothing half written.           *)
LEMMA OwnWhole ==
  ASSUME NEW S, Monitors(S), NEW a \in Actor, Whole2(S[a]),
         NEW l \in Owned(a, S[a].held), a \in Mutator \/ l \in Var
  PROVE  Whole(val[l])
<1>1. l \in Var \cup Mutator /\ S[a].held = Held(a)
  BY StateFacts DEF Owned
<1>2. SUFFICES ASSUME NEW b \in Actor, TornBy(b, S[b], l) PROVE FALSE
  BY <1>1 DEF Monitors, WholeOrTorn
<1>3. b # a
  BY <1>1, <1>2 DEF TornBy, Whole2, Owned
<1>4. S[b].held = Held(b) /\ Told(b, S[b])
  BY StateFacts
<1>5. CASE \E x \in S[b].mid : x[1] = l
  <2>1. PICK x \in S[b].mid : x[1] = l
    BY <1>5
  <2>2. TornTold(b, S[b].held, l, x[2])
    BY <1>4, <2>1 DEF Told
  <2>3. MayWrite(b, l, Held(b)) /\ l \in Loc
    BY <1>1, <1>4, <2>2 DEF TornTold, Loc
  <2>4. l \notin Owned(a, Held(a))
    BY <1>3, <2>3, Exclusive
  <2> QED
    BY <1>1, <2>4
<1>6. CASE S[b].half /\ l = b
  <2>1. b \in Mutator
    BY <1>4, <1>6 DEF Told
  <2>2. l # a /\ l \notin Var
    BY <1>3, <1>6, <2>1, LocKinds
  <2> QED
    BY <2>2 DEF Owned
<1> QED
  BY <1>2, <1>5, <1>6 DEF TornBy

(* Thread a writes the value x at the location l.                           *)
LEMMA WriteStep ==
  ASSUME LInv, NEW S, Monitors(S), NEW a \in Mutator, code[a] # <<>>,
         NEW l \in Loc, MayWrite(a, l, S[a].held), NEW x \in [type : Type, data : Data],
         val' = [val EXCEPT ![l] = x], owner' = owner, Continue(a, <<>>),
         NEW u \in States, EndsCalm(a, Tail(code[a]), u), u.held = S[a].held,
         Told(a, u)', l \in Never => x.type # "ref",
         Whole(x) \/ TornBy(a, u, l) \/ l \in Never,
         \A k \in Loc \ {l} : ~TornBy(a, S[a], k)
  PROVE  LInv'
<1>1. /\ TypeOK /\ a \in Actor /\ S[a].held = Held(a)
      /\ owner \in [Mutex -> Actor \cup {NoOne}]
      /\ val \in [Loc -> [type : Type, data : Data]]
  BY LocKinds, StateFacts DEF LInv, TypeOK
<1>2. code' = [code EXCEPT ![a] = Tail(code[a])]
  BY <1>1, ContinueThen
<1>3. val'[l] = x /\ \A k \in Loc \ {l} : val'[k] = val[k]
  BY <1>1
<1>4. Words'
  BY <1>1 DEF Words
<1>5. NeverRefs'
  <2> SUFFICES ASSUME NEW k \in Never PROVE ~IsRef(k)'
    BY DEF NeverRefs
  <2>1. k \in Loc
    BY DEF Never, Loc
  <2>2. CASE k = l
    BY <1>3, <2>2 DEF IsRef
  <2>3. CASE k # l
    BY <1>3, <2>1, <2>3 DEF IsRef, Monitors, NeverRefs
  <2> QED
    BY <2>2, <2>3
<1>6. \A b \in Actor : Held(b)' = Held(b)
  BY DEF Held
<1>7. ASSUME NEW b \in Actor \ {a}, NEW k \in Owned(b, Held(b)) PROVE val'[k] = val[k]
  <2>1. l \notin Owned(b, Held(b))
    BY <1>1, Exclusive
  <2>2. k \in Loc
    BY DEF Owned, Loc
  <2> QED
    BY <1>3, <2>1, <2>2
<1>8. ASSUME NEW k \in Var \cup Mutator
      PROVE  \/ Whole(val'[k]) \/ TornBy(a, u, k)
             \/ val'[k] = val[k] /\ ~TornBy(a, S[a], k)
  <2>1. k \in Loc /\ k \notin Never
    BY LocKinds DEF Loc, Never
  <2> QED
    BY <1>3, <2>1
<1>9. u.held = Held(a)'
  BY <1>1, <1>6
<1> QED
  BY <1>1, <1>2, <1>4, <1>5, <1>6, <1>7, <1>8, <1>9, MonitorsStep

LEMMA Moves ==
  ASSUME NEW a \in Mutator, NEW p, NEW to \in Loc, NEW from \in Loc, NEW h,
         MayMove(a, p, to, from, h)
  PROVE  /\ to \in Referring(a) \/ to \in Never
         /\ from \in Referring(a) \/ from \in Never
         /\ from \in Referring(a) => from \in Owned(a, h)
BY LocKinds DEF MayMove, MayWrite, MayRead, Referring, Never, Owned, Loc

LEMMA DoTypeStep ==
  ASSUME LInv, NEW a \in Mutator, DoType(a)
  PROVE  LInv'
<1>1. PICK S : Monitors(S)
  BY DEF LInv
<1> PICK to, from : to = Arg(a, 2) /\ from = Arg(a, 3)
  OBVIOUS
<1> DEFINE h == S[a].held
           p == S[a].plain
           x == [type |-> val[from].type, data |-> val[to].data]
<1>2. code[a] # <<>> /\ Head(code[a])[1] = "type" /\ TypeOK /\ a \in Actor
  BY LocKinds DEF LInv, DoType, At
<1>3. PICK u \in States : /\ Leads(a, Head(code[a]), S[a], u)
                          /\ EndsCalm(a, Tail(code[a]), u)
  BY <1>1, <1>2, Front
<1>4. LeadsType(a, to, from, S[a], u) /\ to \in Loc /\ from \in Loc
  BY <1>2, <1>3, InstrArgs DEF Leads, Arg
<1>5. val' = [val EXCEPT ![to].type = val[from].type] /\ owner' = owner /\ Continue(a, <<>>)
  BY DEF DoType
<1>6. /\ val \in [Loc -> [type : Type, data : Data]]
      /\ val[to] \in [type : Type, data : Data]
      /\ val[from] \in [type : Type, data : Data]
  BY <1>2, <1>4 DEF TypeOK
<1>7. x \in [type : Type, data : Data] /\ val' = [val EXCEPT ![to] = x]
  <2>1. [val[to] EXCEPT !.type = val[from].type] = x
    BY <1>6
  <2> QED
    BY <1>5, <1>6, <2>1
<1>8. x.type = val[from].type
  OBVIOUS
<1> HIDE DEF x
<1>9. /\ Whole2(S[a]) /\ MayMove(a, p, to, from, h) /\ MayWrite(a, to, h)
      /\ MayRead(a, from, h)
      /\ to \in Referring(a) => h \cap Stripes # {}
      /\ to \in Never => from \in Never \/ (from = a /\ p)
      /\ u = State(h, Mid(a, to, from), FALSE, u.plain, {})
      /\ u.plain => Kept(a, p, to, from)
  BY <1>4 DEF LeadsType, MayMove
<1>10. /\ u.held = h /\ u.mid = Mid(a, to, from) /\ u.half = FALSE /\ u.ref = {}
  BY <1>9 DEF State
<1>11. Told(a, S[a]) /\ (p => ~IsRef(a))
  BY <1>1, <1>2, StateFacts DEF Told
<1>12. from \in Never => val[from].type # "ref"
  BY <1>1 DEF Monitors, NeverRefs, IsRef
<1>13. /\ to \in Referring(a) \/ to \in Never
       /\ from \in Referring(a) \/ from \in Never
       /\ from \in Referring(a) => from \in Owned(a, h)
  BY <1>4, <1>9, Moves
<1>14. from \in Referring(a) => Whole(val[from])
  BY <1>1, <1>2, <1>9, <1>13, OwnWhole
<1>15. val'[to] = x /\ \A k \in Loc \ {to} : val'[k] = val[k]
  BY <1>4, <1>6, <1>7
<1>16. u.plain => ~IsRef(a)'
  <2> SUFFICES ASSUME u.plain PROVE val'[a].type # "ref"
    BY DEF IsRef
  <2>1. CASE to = a
    <3>1. from \in Never \/ (from = a /\ p)
      BY <1>9, <2>1 DEF Kept
    <3> QED
      BY <1>8, <1>11, <1>12, <1>15, <2>1, <3>1 DEF IsRef
  <2>2. CASE to # a
    <3>1. p /\ a \in Loc
      BY <1>9, <2>2 DEF Kept, Loc
    <3> QED
      BY <1>11, <1>15, <2>2, <3>1 DEF IsRef
  <2> QED
    BY <2>1, <2>2
<1>17. ASSUME to \in Referring(a) PROVE TornTold(a, h, to, from)'
  <2>1. ASSUME IsRef(to)' PROVE from \in Referring(a) /\ val'[from].data \in Cell
    <3>1. val[from].type = "ref"
      BY <1>8, <1>15, <2>1 DEF IsRef
    <3>2. from \in Referring(a) /\ val[from].data \in Cell
      BY <1>12, <1>13, <1>14, <3>1 DEF Whole
    <3>3. val'[from].data = val[from].data
      BY <1>4, <1>15 DEF x
    <3> QED
      BY <3>2, <3>3
  <2> QED
    BY <1>9, <1>17, <2>1 DEF TornTold
<1>18. Told(a, u)'
  <2>1. ASSUME NEW y \in u.mid PROVE TornTold(a, h, y[1], y[2])'
    <3>1. to \in Referring(a) /\ y = <<to, from>>
      BY <1>10, <2>1 DEF Mid
    <3>2. y[1] = to /\ y[2] = from
      BY <3>1
    <3> QED
      BY <1>17, <3>1, <3>2
  <2> HIDE DEF h, p
  <2> QED
    BY <1>10, <1>16, <2>1 DEF Told
<1>19. to \in Never => x.type # "ref"
  BY <1>8, <1>9, <1>11, <1>12 DEF IsRef
<1>20. TornBy(a, u, to) \/ to \in Never
  <2>1. ASSUME to \in Referring(a) PROVE TornBy(a, u, to)
    <3>1. <<to, from>> \in u.mid /\ <<to, from>>[1] = to
      BY <1>10, <2>1 DEF Mid
    <3> QED
      BY <3>1 DEF TornBy
  <2> QED
    BY <1>13, <2>1
<1>21. \A k \in Loc \ {to} : ~TornBy(a, S[a], k)
  BY <1>9 DEF Whole2, TornBy
<1> QED
  BY <1>1, <1>2, <1>3, <1>4, <1>5, <1>7, <1>9, <1>10, <1>18, <1>19, <1>20, <1>21, WriteStep

LEMMA DoDataStep ==
  ASSUME LInv, NEW a \in Mutator, DoData(a)
  PROVE  LInv'
<1>1. PICK S : Monitors(S)
  BY DEF LInv
<1> PICK to, from : to = Arg(a, 2) /\ from = Arg(a, 3)
  OBVIOUS
<1> DEFINE h == S[a].held
           p == S[a].plain
           x == [type |-> val[to].type, data |-> val[from].data]
<1>2. code[a] # <<>> /\ Head(code[a])[1] = "data" /\ TypeOK /\ a \in Actor
  BY LocKinds DEF LInv, DoData, At
<1>3. PICK u \in States : /\ Leads(a, Head(code[a]), S[a], u)
                          /\ EndsCalm(a, Tail(code[a]), u)
  BY <1>1, <1>2, Front
<1>4. LeadsData(a, to, from, S[a], u) /\ to \in Loc /\ from \in Loc
  BY <1>2, <1>3, InstrArgs DEF Leads, Arg
<1>5. val' = [val EXCEPT ![to].data = val[from].data] /\ owner' = owner /\ Continue(a, <<>>)
  BY DEF DoData
<1>6. /\ val \in [Loc -> [type : Type, data : Data]]
      /\ val[to] \in [type : Type, data : Data]
      /\ val[from] \in [type : Type, data : Data]
  BY <1>2, <1>4 DEF TypeOK
<1>7. x \in [type : Type, data : Data] /\ val' = [val EXCEPT ![to] = x]
  <2>1. [val[to] EXCEPT !.data = val[from].data] = x
    BY <1>6
  <2> QED
    BY <1>5, <1>6, <2>1
<1>8. x.type = val[to].type /\ x.data = val[from].data
  OBVIOUS
<1> HIDE DEF x
<1>9. /\ S[a].mid = Mid(a, to, from) /\ S[a].half = FALSE
      /\ MayMove(a, p, to, from, h) /\ MayWrite(a, to, h)
      /\ u = State(h, {}, FALSE, p, {})
  BY <1>4 DEF LeadsData, MayMove
<1>10. u.held = h /\ u.mid = {} /\ u.half = FALSE /\ u.ref = {} /\ u.plain = p
  BY <1>9 DEF State
<1>11. Told(a, S[a]) /\ (p => ~IsRef(a))
  BY <1>1, <1>2, StateFacts DEF Told
<1>12. to \in Never => x.type # "ref"
  BY <1>1, <1>8 DEF Monitors, NeverRefs, IsRef
<1>13. to \in Referring(a) \/ to \in Never
  BY <1>4, <1>9, Moves
<1>14. val'[to] = x /\ \A k \in Loc \ {to} : val'[k] = val[k]
  BY <1>4, <1>6, <1>7
<1>15. Told(a, u)'
  <2>1. p => ~IsRef(a)'
    <3>1. a \in Loc
      BY DEF Loc
    <3> QED
      BY <1>8, <1>11, <1>14, <3>1 DEF IsRef
  <2> HIDE DEF h, p
  <2> QED
    BY <1>10, <2>1 DEF Told
<1>16. ASSUME to \in Referring(a) PROVE Whole(x)
  <2>1. <<to, from>> \in S[a].mid /\ <<to, from>>[1] = to /\ <<to, from>>[2] = from
    BY <1>9, <1>16 DEF Mid
  <2>2. TornTold(a, h, to, from)
    BY <1>11, <2>1 DEF Told
  <2> QED
    BY <1>8, <2>2 DEF TornTold, Whole, IsRef
<1>17. Whole(x) \/ to \in Never
  BY <1>13, <1>16
<1>18. \A k \in Loc \ {to} : ~TornBy(a, S[a], k)
  BY <1>9 DEF Mid, TornBy
<1> QED
  BY <1>1, <1>2, <1>3, <1>4, <1>5, <1>7, <1>9, <1>10, <1>12, <1>15, <1>17, <1>18, WriteStep

LEMMA DoPutStep ==
  ASSUME LInv, NEW a \in Mutator, DoPut(a)
  PROVE  LInv'
<1>1. PICK S : Monitors(S)
  BY DEF LInv
<1> PICK k, l, w : k = Arg(a, 2) /\ l = Arg(a, 3) /\ w = Arg(a, 4)
  OBVIOUS
<1> DEFINE h == S[a].held
           p == S[a].plain
           x == IF k = "type" THEN [type |-> w, data |-> val[l].data]
                              ELSE [type |-> val[l].type, data |-> w]
<1>2. code[a] # <<>> /\ Head(code[a])[1] = "put" /\ TypeOK /\ a \in Actor
  BY LocKinds DEF LInv, DoPut, At
<1>3. PICK u \in States : /\ Leads(a, Head(code[a]), S[a], u)
                          /\ EndsCalm(a, Tail(code[a]), u)
  BY <1>1, <1>2, Front
<1>4. /\ k \in {"type", "data"} /\ l \in Loc
      /\ k = "type" => w \in Type /\ LeadsPutType(a, l, w, S[a], u)
      /\ k = "data" => w \in Data /\ LeadsPutData(a, l, w, S[a], u)
  BY <1>2, <1>3, InstrArgs DEF Leads, Arg
<1>5. /\ val' = [val EXCEPT ![l] = IF k = "type" THEN [@ EXCEPT !.type = w]
                                                 ELSE [@ EXCEPT !.data = w]]
      /\ owner' = owner /\ Continue(a, <<>>)
  BY DEF DoPut
<1>6. val \in [Loc -> [type : Type, data : Data]] /\ val[l] \in [type : Type, data : Data]
  BY <1>2, <1>4 DEF TypeOK
<1>7. x \in [type : Type, data : Data] /\ val' = [val EXCEPT ![l] = x]
  <2>1. /\ [val[l] EXCEPT !.type = w] = [type |-> w, data |-> val[l].data]
        /\ [val[l] EXCEPT !.data = w] = [type |-> val[l].type, data |-> w]
    BY <1>6
  <2>2. x = IF k = "type" THEN [val[l] EXCEPT !.type = w] ELSE [val[l] EXCEPT !.data = w]
    BY <2>1
  <2>3. x \in [type : Type, data : Data]
    BY <1>4, <1>6
  <2> QED
    BY <1>5, <1>6, <2>2, <2>3
<1>8. /\ k = "type" => x.type = w
      /\ k = "data" => x.type = val[l].type /\ x.data = w
  BY <1>4
<1> HIDE DEF x
<1>9. val'[l] = x /\ \A j \in Loc \ {l} : val'[j] = val[j]
  BY <1>4, <1>6, <1>7
<1>10. Told(a, S[a]) /\ (p => ~IsRef(a)) /\ a \in Loc
  BY <1>1, <1>2, StateFacts DEF Told, Loc
<1>11. MayWrite(a, a, h)
  BY LocKinds DEF MayWrite
<1>12. ASSUME u.held = h, u.mid = {}, u.ref = {}, u.half => Vref \in h,
              u.plain => ~IsRef(a)'
       PROVE  Told(a, u)'
  <2> HIDE DEF h, p
  <2> QED
    BY <1>12 DEF Told
<1>13. l # a => val'[a] = val[a]
  BY <1>9, <1>10
<1>14. CASE k = "type" /\ w \in Scalar
  <2>1. /\ Whole2(S[a]) /\ MayWrite(a, l, h) /\ l \in Elem \cup {a}
        /\ u = State(h, {}, FALSE, u.plain, {})
        /\ u.plain => l = a \/ p
    BY <1>4, <1>14, NameAssumption DEF LeadsPutType
  <2>2. u.held = h /\ u.mid = {} /\ u.ref = {} /\ u.half = FALSE
    BY <2>1 DEF State
  <2>3. x.type # "ref"
    BY <1>8, <1>14, NameAssumption
  <2>4. u.plain => ~IsRef(a)'
    BY <1>9, <1>10, <1>13, <2>1, <2>3 DEF IsRef
  <2>5. Told(a, u)'
    BY <1>12, <2>2, <2>4
  <2>6. Whole(x)
    BY <2>3 DEF Whole
  <2>7. \A j \in Loc \ {l} : ~TornBy(a, S[a], j)
    BY <2>1 DEF Whole2, TornBy
  <2> QED
    BY <1>1, <1>2, <1>3, <1>4, <1>5, <1>7, <2>1, <2>2, <2>3, <2>5, <2>6, <2>7, WriteStep
<1>15. CASE k = "type" /\ w \notin Scalar
  <2>1. /\ Whole2(S[a]) /\ l = a /\ Vref \in h
        /\ u = State(h, {}, TRUE, FALSE, {})
    BY <1>4, <1>15 DEF LeadsPutType
  <2>2. u.held = h /\ u.mid = {} /\ u.ref = {} /\ u.half = TRUE /\ u.plain = FALSE
    BY <2>1 DEF State
  <2>3. Told(a, u)'
    BY <1>12, <2>1, <2>2
  <2>4. TornBy(a, u, l) /\ l \notin Never
    BY <2>1, <2>2, LocKinds DEF TornBy, Never
  <2>5. \A j \in Loc \ {l} : ~TornBy(a, S[a], j)
    BY <2>1 DEF Whole2, TornBy
  <2> QED
    BY <1>1, <1>2, <1>3, <1>4, <1>5, <1>7, <1>11, <2>1, <2>2, <2>3, <2>4, <2>5, WriteStep
<1>16. CASE k = "data"
  <2>1. /\ l = a /\ S[a].mid = {} /\ l \notin Never
        /\ \/ u = State(h, {}, FALSE, p, {}) /\ p
           \/ u = State(h, {}, FALSE, FALSE, {}) /\ w \in Cell
    BY <1>4, <1>16, LocKinds DEF LeadsPutData, Never
  <2>2. /\ u.held = h /\ u.mid = {} /\ u.ref = {} /\ u.half = FALSE
        /\ u.plain => p
        /\ p \/ w \in Cell
    BY <2>1 DEF State
  <2>3. u.plain => ~IsRef(a)'
    BY <1>8, <1>9, <1>10, <1>16, <2>1, <2>2 DEF IsRef
  <2>4. Told(a, u)'
    BY <1>12, <2>2, <2>3
  <2>5. Whole(x)
    BY <1>8, <1>10, <1>16, <2>1, <2>2 DEF Whole, IsRef
  <2>6. \A j \in Loc \ {l} : ~TornBy(a, S[a], j)
    BY <2>1 DEF TornBy
  <2> QED
    BY <1>1, <1>2, <1>3, <1>4, <1>5, <1>7, <1>11, <2>1, <2>2, <2>4, <2>5, <2>6, WriteStep
<1> QED
  BY <1>4, <1>14, <1>15, <1>16

-----------------------------------------------------------------------------
LEMMA InitLInv == Init => LInv
<1> SUFFICES ASSUME Init PROVE LInv
  OBVIOUS
<1>1. /\ owner = [m \in Mutex |-> NoOne] /\ code = [a \in Actor |-> <<>>]
      /\ val \in [Loc -> [type : Scalar, data : Datum] \cup [type : {"ref"}, data : Cell]]
      /\ \A l \in Loc \ Var : val[l].type # "ref"
  BY DEF Init
<1>2. TypeOK
  <2>1. [type : Scalar, data : Datum] \cup [type : {"ref"}, data : Cell]
          \subseteq [type : Type, data : Data]
    BY DEF Type, Data
  <2>2. val \in [Loc -> [type : Type, data : Data]]
    BY <1>1, <2>1
  <2>3. <<>> \in Seq(Instruction)
    OBVIOUS
  <2> QED
    BY <1>1, <2>2, <2>3 DEF TypeOK
<1> DEFINE c == Calm({}, FALSE)
           S == [a \in Actor |-> c]
<1>3. {} \in SUBSET Mutex /\ FALSE \in BOOLEAN
  OBVIOUS
<1>4. c \in States /\ c.held = {} /\ \A a \in Actor : Told(a, c) /\ EndsCalm(a, <<>>, c)
  <2>1. c \in States /\ c.held = {}
    BY <1>3, CalmFacts
  <2>2. \A a \in Actor : Told(a, c)
    BY <1>3, TellsCalm
  <2>3. \A a \in Actor : EndsCalm(a, <<>>, c)
    BY <2>1, RunsNothing DEF EndsCalm
  <2> QED
    BY <2>1, <2>2, <2>3
<1> HIDE DEF c
<1>5. \A a \in Actor : Held(a) = {}
  BY <1>1, NameAssumption DEF Held
<1>6. S \in [Actor -> States] /\ \A a \in Actor : S[a] = c /\ code[a] = <<>>
  BY <1>1, <1>4
<1> HIDE DEF S
<1>7. \A a \in Actor : Fits(a, S[a])
  BY <1>4, <1>5, <1>6 DEF Fits
<1>8. NeverRefs
  BY <1>1, LocKinds DEF NeverRefs, Never, IsRef
<1>9. WholeOrTorn(S)
  <2> SUFFICES ASSUME NEW l \in Var \cup Mutator PROVE Whole(val[l])
    BY DEF WholeOrTorn
  <2>1. val[l] \in [type : Scalar, data : Datum] \cup [type : {"ref"}, data : Cell]
    BY <1>1 DEF Loc
  <2> QED
    BY <2>1, NameAssumption DEF Whole
<1>10. Monitors(S)
  BY <1>6, <1>7, <1>8, <1>9 DEF Monitors
<1> QED
  BY <1>2, <1>10 DEF LInv

LEMMA NextLInv == LInv /\ [Next]_vars => LInv'
<1> SUFFICES ASSUME LInv, [Next]_vars PROVE LInv'
  OBVIOUS
<1>1. CASE Next
  <2>1. CASE BeginMark \/ DoScan \/ DoVisit
    BY <2>1, BeginMarkStep, DoScanStep, DoVisitStep
  <2>2. ASSUME NEW m \in Mutator, Begin(m) \/ DoPut(m) \/ DoCapture(m) \/ DoTake(m)
        PROVE  LInv'
    BY <2>2, BeginsStep, DoPutStep, DoCaptureStep, DoTakeStep
  <2>3. ASSUME NEW a \in Actor, DoLock(a) \/ DoFree(a) \/ DoUnlock(a) \/ DoTest(a) \/ DoFollow(a)
        PROVE  LInv'
    BY <2>3, DoLockStep, DoFreeStep, DoUnlockStep, DoTestStep, DoFollowStep
  <2>4. ASSUME NEW m \in Mutator, DoType(m) \/ DoData(m)
        PROVE  LInv'
    BY <2>4, DoTypeStep, DoDataStep
  <2> QED
    BY <1>1, <2>1, <2>2, <2>3, <2>4 DEF Next
<1>2. CASE UNCHANGED vars
  <2>1. owner' = owner /\ val' = val /\ code' = code
    BY <1>2 DEF vars
  <2>2. PICK S : Monitors(S)
    BY DEF LInv
  <2>3. TypeOK'
    BY <2>1 DEF LInv, TypeOK
  <2>4. ASSUME NEW a \in Actor PROVE Fits(a, S[a])'
    <3>1. Fits(a, S[a]) /\ S[a] \in States
      BY <2>2 DEF Monitors
    <3>2. Told(a, S[a])'
      BY <2>1, <3>1, ToldKept DEF Fits
    <3> QED
      BY <2>1, <3>1, <3>2 DEF Fits, Held
  <2>5. NeverRefs' /\ WholeOrTorn(S)'
    BY <2>1, <2>2 DEF Monitors, NeverRefs, WholeOrTorn, IsRef
  <2>6. Monitors(S)'
    BY <2>2, <2>4, <2>5 DEF Monitors
  <2> QED
    BY <2>3, <2>6 DEF LInv
<1> QED
  BY <1>1, <1>2

(* Every thread keeps to the discipline of varlock.h whatever it executes:  *)
(* the monitors follow all code and what they know of values is true.       *)
THEOREM DisciplineKept == Spec => []LInv
<1> QED
  BY InitLInv, NextLInv, PTL DEF Spec

-----------------------------------------------------------------------------
(* The mutexes, the values and the code keep their types, whatever the      *)
(* threads read while others write: who follows a reference (push_symbol,   *)
(* assign, vartab_shade_lk) goes on with a vref.                            *)
THEOREM TypeCorrect == Spec => []TypeOK
<1>1. LInv => TypeOK
  BY DEF LInv
<1> QED
  BY <1>1, DisciplineKept, PTL

(* What the collector holds when it has the two tables.                     *)
LEMMA ScanHolds ==
  ASSUME LInv, Scanning
  PROVE  Tables \cup Stripes \subseteq Held(Collector)
<1>1. PICK S : Monitors(S)
  BY DEF LInv
<1>2. Tables \subseteq Held(Collector) /\ Collector \in Actor /\ Vref \in Held(Collector)
  BY LocKinds, Kinds DEF Scanning, Tables, Held, Vref
<1>3. S[Collector].held = Held(Collector)
  BY <1>1, <1>2, StateFacts
<1>4. code[Collector] # <<>>
  BY <1>1, <1>2, <1>3, Idle
<1>5. ScanSafe(Collector, Held(Collector))
  BY <1>1, <1>2, <1>3, <1>4, Front DEF Leads
<1> QED
  BY <1>2, <1>5 DEF ScanSafe

LEMMA WholeFollowed ==
  ASSUME LInv, NEW a \in Actor, At(a, "follow"), Arg(a, 3) \in Var
  PROVE  IsRef(Arg(a, 3)) /\ Whole(val[Arg(a, 3)])
<1> PICK v : v = Arg(a, 3)
  OBVIOUS
<1>1. PICK S : Monitors(S)
  BY DEF LInv
<1>2. PICK u : Leads(a, Head(code[a]), S[a], u)
  BY <1>1, Front DEF At
<1>3. LeadsFollow(a, Arg(a, 2), v, S[a], u)
  BY <1>2 DEF Leads, At, Arg
<1>4. v \in S[a].ref /\ v \in Var /\ Whole2(S[a])
  BY <1>3 DEF LeadsFollow
<1>5. Key(v) \in S[a].held /\ IsRef(v)
  BY <1>1, <1>4, StateFacts DEF Told
<1>6. v \in Owned(a, S[a].held)
  BY <1>4, <1>5 DEF Owned
<1>7. Whole(val[v])
  BY <1>1, <1>4, <1>6, OwnWhole
<1> QED
  BY <1>5, <1>7

LEMMA WholeScanned ==
  ASSUME LInv, Scanning, NEW l \in Var \cup Mutator
  PROVE  Whole(val[l])
<1>1. PICK S : Monitors(S)
  BY DEF LInv
<1>2. SUFFICES ASSUME NEW b \in Actor, TornBy(b, S[b], l) PROVE FALSE
  BY <1>1 DEF Monitors, WholeOrTorn
<1>3. S[b].held = Held(b) /\ Told(b, S[b])
  BY <1>1, StateFacts
<1>4. b \in Mutator /\ (Held(b) \cap Stripes # {} \/ Vref \in Held(b))
  BY <1>2, <1>3 DEF TornBy, Told, TornTold
<1>5. b # Collector /\ Vref \in Tables
  BY <1>4, LocKinds, Kinds
<1> QED
  BY <1>4, <1>5, ScanHolds DEF Held

(* Whoever follows the reference in a variable finds it written whole,      *)
(* although another thread may be capturing the variable, and so does the   *)
(* collector on the stacks, whose owners make references of their tops:     *)
(* VALUE::operator= writes them with both values locked, vref_new with the  *)
(* table of vrefs locked.                                                   *)
THEOREM ReferencesWhole == Spec => []RefsWhole
<1>1. LInv => RefsWhole
  BY WholeFollowed, WholeScanned DEF RefsWhole
<1> QED
  BY <1>1, DisciplineKept, PTL

-----------------------------------------------------------------------------
LEMMA NextLock ==
  ASSUME LInv, NEW a \in Actor, At(a, "lock")
  PROVE  MayLock(a, Arg(a, 2), Held(a)) /\ Arg(a, 2) \in Mutex
<1>1. PICK S : Monitors(S)
  BY DEF LInv
<1>2. PICK u : Leads(a, Head(code[a]), S[a], u)
  BY <1>1, Front DEF At
<1>3. LeadsLock(a, Arg(a, 2), S[a], u) /\ Arg(a, 2) \in Mutex
  BY <1>2, InstrArgs DEF Leads, At, Arg
<1> QED
  BY <1>1, <1>3, StateFacts DEF LeadsLock

(* Who takes a value mutex while it holds one holds mutex 0                 *)
(* (varlock.h:41), in every operation and in the marking.                   *)
THEOREM ZeroIsHeld == Spec => []ZeroHeld
<1>1. LInv => ZeroHeld
  <2> SUFFICES ASSUME LInv, NEW a \in Actor, At(a, "lock"), Arg(a, 2)[1] = "value",
                      NEW i \in 1..PRIME, owner[<<"value", i>>] = a
               PROVE  owner[Zero] = a
    BY DEF ZeroHeld, Zero
  <2>1. MayLock(a, Arg(a, 2), Held(a))
    BY NextLock
  <2>2. <<"value", i>> \in Held(a) \cap Stripes
    BY Kinds DEF Held, Stripes
  <2>3. Zero \in Held(a)
    BY <2>1, <2>2 DEF MayLock
  <2> QED
    BY <2>3 DEF Held
<1> QED
  BY <1>1, DisciplineKept, PTL

(* In a circle somebody holds mutex 0; the mutex it waits for is held by    *)
(* the collector alone, without mutex 0: but the collector holds value      *)
(* mutexes then only with mutex 0.                                          *)
LEMMA NoCircle ==
  ASSUME "asort" \notin Ops
  PROVE  LInv => NoDeadlock
<1> SUFFICES ASSUME LInv, NEW S \in SUBSET Actor, S # {}, \A a \in S : WaitsFor(a, S)
             PROVE  FALSE
  BY DEF NoDeadlock
<1>1. ASSUME NEW a \in S
      PROVE  /\ MayLock(a, Arg(a, 2), Held(a)) /\ Arg(a, 2) \in Mutex
             /\ \E b \in S : Arg(a, 2) \in Held(b)
  <2>1. At(a, "lock") /\ owner[Arg(a, 2)] \in S
    BY DEF WaitsFor
  <2>2. MayLock(a, Arg(a, 2), Held(a)) /\ Arg(a, 2) \in Mutex
    BY <2>1, NextLock
  <2> QED
    BY <2>1, <2>2 DEF Held
<1>2. ASSUME NEW b \in S, Held(b) # {}, Zero \notin Held(b)
      PROVE  b = Collector /\ Arg(b, 2) = Zero
  BY <1>1, <1>2 DEF MayLock
<1>3. PICK z \in S : Zero \in Held(z)
  <2>1. PICK a \in S : TRUE
    OBVIOUS
  <2>2. PICK b \in S : Arg(a, 2) \in Held(b)
    BY <1>1
  <2>3. CASE Zero \in Held(b)
    BY <2>3
  <2>4. CASE Zero \notin Held(b)
    <3>1. Arg(b, 2) = Zero
      BY <1>2, <2>2, <2>4
    <3> QED
      BY <1>1, <3>1
  <2> QED
    BY <2>3, <2>4
<1>4. PICK c \in S : Arg(z, 2) \in Held(c)
  BY <1>1
<1>5. c # z /\ Zero \notin Held(c) /\ Arg(z, 2) # Zero
  <2>1. Arg(z, 2) \notin Held(z)
    BY <1>1 DEF MayLock
  <2> QED
    BY <1>3, <1>4, <2>1 DEF Held
<1>6. c = Collector /\ Arg(c, 2) = Zero
  BY <1>2, <1>4, <1>5
<1>7. z \in Mutator
  BY <1>5, <1>6 DEF Actor
<1>8. Arg(z, 2)[1] = "value"
  BY <1>1, <1>3, <1>7, NameAssumption DEF MayLock
<1>9. Arg(z, 2) \in Stripes
  BY <1>1, <1>5, <1>8, Kinds DEF Values
<1>10. MayLock(c, Zero, Held(c)) /\ Zero[1] = "value"
  BY <1>1, <1>6 DEF Zero
<1> QED
  BY <1>4, <1>5, <1>9, <1>10 DEF MayLock

(* No threads wait for each other in a circle, the collector and all        *)
(* mutexes of the scan included, unless the program sorts with a block      *)
(* (asort pushes the block with the array locked).                          *)
THEOREM NoCircleWaits ==
  ASSUME "asort" \notin Ops
  PROVE  Spec => []NoDeadlock
<1>1. LInv => NoDeadlock
  BY NoCircle
<1> QED
  BY <1>1, DisciplineKept, PTL

-----------------------------------------------------------------------------
(* Who writes holds what keeps the collector away, or writes what it does   *)
(* not rely on.                                                             *)
LEMMA NextWrite ==
  ASSUME LInv, NEW a \in Mutator, At(a, "type") \/ At(a, "data") \/ At(a, "put")
  PROVE  LET l == IF At(a, "put") THEN Arg(a, 3) ELSE Arg(a, 2)
         IN  l \in Loc /\ MayWrite(a, l, Held(a))
<1>1. PICK S : Monitors(S)
  BY DEF LInv
<1>2. PICK u : Leads(a, Head(code[a]), S[a], u)
  BY <1>1, Front, LocKinds DEF At
<1>3. S[a].held = Held(a)
  BY <1>1, StateFacts, LocKinds
<1>4. CASE At(a, "type") \/ At(a, "data")
  <2>1. Arg(a, 2) \in Loc /\ MayWrite(a, Arg(a, 2), S[a].held)
    BY <1>2, <1>4, InstrArgs DEF Leads, LeadsType, LeadsData, MayMove, At, Arg
  <2>2. ~At(a, "put")
    BY <1>4 DEF At
  <2> QED
    BY <1>3, <2>1, <2>2
<1>5. CASE At(a, "put")
  <2>1. Arg(a, 3) \in Loc /\ (MayWrite(a, Arg(a, 3), S[a].held) \/ Arg(a, 3) = a)
    BY <1>2, <1>5, InstrArgs DEF Leads, LeadsPutType, LeadsPutData, At, Arg
  <2>2. MayWrite(a, a, S[a].held)
    BY LocKinds DEF MayWrite
  <2> QED
    BY <1>3, <1>5, <2>1, <2>2
<1> QED
  BY <1>4, <1>5

LEMMA NotFrozen ==
  ASSUME LInv, Scanning, NEW a \in Mutator, NEW l \in Loc, MayWrite(a, l, Held(a))
  PROVE  l \notin Frozen
<1>1. a # Collector /\ Vref \in Tables
  BY LocKinds, Kinds
<1>2. \A m \in Held(a) : m \notin Stripes \cup Tables
  BY <1>1, ScanHolds DEF Held
<1>3. l \in Hashed /\ Key(l) \in Stripes
  BY Kinds, LocKinds
<1>4. l \notin Var /\ l \notin Cell
  BY <1>1, <1>2, <1>3 DEF MayWrite
<1>5. l \in Elem => ~Visited(ArrOf[l])
  BY <1>1, <1>2, <1>3 DEF MayWrite, Held, Visited, MarkKey
<1> QED
  BY <1>4, <1>5 DEF Frozen

LEMMA NextFrozen ==
  ASSUME LInv, [Next]_vars, Scanning, NEW k \in Frozen
  PROVE  val'[k] = val[k]
<1>1. CASE val' = val
  BY <1>1
<1>2. CASE \E a \in Mutator : DoType(a) \/ DoData(a) \/ DoPut(a)
  <2>1. PICK a \in Mutator : DoType(a) \/ DoData(a) \/ DoPut(a)
    BY <1>2
  <2> DEFINE l == IF At(a, "put") THEN Arg(a, 3) ELSE Arg(a, 2)
  <2>2. l \in Loc /\ MayWrite(a, l, Held(a))
    BY <2>1, NextWrite DEF DoType, DoData, DoPut
  <2>3. l \notin Frozen /\ k # l
    BY <2>2, NotFrozen
  <2>4. k \in Loc
    BY DEF Frozen, Loc
  <2>5. val \in [Loc -> [type : Type, data : Data]]
    BY DEF LInv, TypeOK
  <2>6. CASE DoType(a) \/ DoData(a)
    <3>1. l = Arg(a, 2)
      BY <2>6 DEF DoType, DoData, At
    <3> HIDE DEF l
    <3> QED
      BY <2>3, <2>4, <2>5, <2>6, <3>1 DEF DoType, DoData
  <2>7. CASE DoPut(a)
    <3>1. l = Arg(a, 3)
      BY <2>7 DEF DoPut
    <3> HIDE DEF l
    <3> QED
      BY <2>3, <2>4, <2>5, <2>7, <3>1 DEF DoPut
  <2> QED
    BY <2>1, <2>6, <2>7
<1> QED
  BY <1>1, <1>2 DEF Next, vars, Begin, BeginMark, DoScan, DoVisit, DoCapture, DoTake,
                    DoLock, DoFree, DoUnlock, DoTest, DoFollow

(* While the collector scans, the variables, the values of vrefs and the    *)
(* elements of the object it visits do not change: whoever writes one holds *)
(* a mutex the collector has.  The threads go on meanwhile with their       *)
(* numbers, and with the elements of other arrays.                          *)
THEOREM ScanIsFrozen == Spec => ScanFrozen
<1>1. LInv /\ [Next]_vars => [Scanning => \A l \in Frozen : val'[l] = val[l]]_vars
  BY NextFrozen
<1> QED
  BY <1>1, DisciplineKept, PTL DEF Spec, ScanFrozen
=============================================================================
