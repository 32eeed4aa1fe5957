------------------------------ MODULE Sequence ------------------------------
(***************************************************************************)
(* BEGIN SEQUENCE as it is compiled (ppo2cpp/codegen.cpp) and executed     *)
(* (ccclib/src/break.cpp): setjmp and longjmp, a stack of jump records     *)
(* (seqjmp) and a stack of the types the recovers take (usingstk), neither *)
(* of which knows the nesting of the program.                              *)
(*                                                                         *)
(* One thread runs arbitrary code: it calls functions, runs loops, enters  *)
(* sequences, breaks, returns, loops and exits.  frames is where it is in  *)
(* the code; the generated code counts the same nesting at compile time    *)
(* (begseqdepth_ret, begseqdepth_loop).  Pointers count from zero, as in   *)
(* the code they name the first free place.  What is above the top of      *)
(* usingstk stays there.                                                   *)
(***************************************************************************)
EXTENDS Integers, Sequences, SequencesExt, FiniteSetsExt

CONSTANTS
  Exception,    (* types of exceptions                                     *)
  Text,         (* begin statements: their recovers, finally, break block  *)
  Bases,        (* the classes an exception is derived from                *)
  Uses          (* what the program does, see use                          *)

ASSUME ExceptionAssumption == "END" \notin Exception
ASSUME TextAssumption == Text \subseteq [recs : Seq(Exception \cup {"NIL"}), fin : BOOLEAN,
                                        block : {"NIL", "reject"}]
ASSUME UsesAssumption == \A u \in Uses : u.texts \subseteq Text /\ u.excs \subseteq Exception

VARIABLES
  th,           (* thread_data: the stacks, and where the program is       *)
  use           (* the statements, exceptions, frames of a program, and    *)
                (* whether it runs loops, calls functions in the           *)
                (* expressions of recovers, jumps out of a finally that    *)
                (* ends a break or a return; never changes                 *)

vars == <<th, use>>

NoText == [recs |-> <<>>, fin |-> FALSE, block |-> "NIL"]

(* seq: the value of setjmp; at: the stack below the arguments of a call.  *)
Frame(kind, text, at) == [kind |-> kind, text |-> text, phase |-> "body", seq |-> 0, exc |-> "NIL", at |-> at]

(* The END of a finally is lowest, the first recover is on top.            *)
Recovers(text) == IF text.recs = <<>> /\ ~text.fin THEN <<"NIL">> ELSE text.recs

Slots(text) == (IF text.fin THEN <<"END">> ELSE <<>>) \o Reverse(Recovers(text))

(* The value of a place of a buffer, which may never have been written.    *)
Place(buf, n) == IF n \in DOMAIN buf THEN buf[n] ELSE "NIL"

Stored(buf, n, v) == [i \in 1..Max({n, Len(buf)}) |-> IF i = n THEN v ELSE Place(buf, i)]

Height(stack, n) == [i \in 1..n |-> Place(stack, i)]

Innermost(t, kind) == Max({0} \cup {i \in DOMAIN t.frames : t.frames[i].kind = kind})

InLoop(t) == Innermost(t, "loop") > Innermost(t, "call")

(* The sequences around a statement that are still to be left, down to the *)
(* function and down to the loop.                                          *)
Opened(t, n) == {i \in n+1..Len(t.frames) :
                   t.frames[i].kind = "sequence" /\ t.frames[i].phase \in {"body", "recover"}}

RetDepth(t) == Cardinality(Opened(t, Innermost(t, "call")))

(* Mutant: a loop does not reset the counter of the sequences around it.   *)
LoopDepthKept(t) == Cardinality(Opened(t, Innermost(t, "call")))

LoopDepth(t) == Cardinality(Opened(t, Max({Innermost(t, "loop"), Innermost(t, "call")})))

-----------------------------------------------------------------------------
(* Breaks.                                                                 *)

(* The break block is looked for where the stack was when the sequence     *)
(* began; "reject" is a block whose result is not NIL.                     *)
bbeval(t, u) ==
  LET j == Max({i \in 1..t.seqjmp : t.seqjmpbuf[i].using < u})
  IN Place(t.stack, t.seqjmpbuf[j].stack + 1) # "reject"

Compatible(rec, exc) == rec # "END" /\ (rec = "NIL" \/ rec = exc \/ rec \in Bases[exc])

(* The recover that takes the exception: a pointer to the place above it.  *)
Search(t, exc, bbflag) ==
  Max({0} \cup {u \in 1..t.usingstk : Compatible(t.usingstkbuf[u], exc) /\ (bbflag => bbeval(t, u))})

(* longjmp: frames are dropped; -1, -2, -3, -4 go to the finally.          *)
longjmp(t, e, seq, exc) ==
  [t EXCEPT !.frames = [SubSeq(@, 1, e.frame) EXCEPT ![e.frame].seq = seq, ![e.frame].exc = exc,
                          ![e.frame].phase = IF seq > 0 THEN "recover" ELSE "finally"],
            !.trace = e.trace]

(* The record of the sequence that catches, or of one that has a finally   *)
(* and lies above it.                                                      *)
Record(t, u) ==
  Max({i \in 1..t.seqjmp : LET e == t.seqjmpbuf[i] IN
         e.using < u \/ Place(t.usingstkbuf, e.using + 1) = "END"})

(* Mutant: the END of the sequence that catches is not put back.           *)
breakEndLost(t, exc, bbflag) ==
  LET u == Search(t, exc, bbflag)
      j == Record(t, u)
      e == t.seqjmpbuf[j]
      finally == IF Place(t.usingstkbuf, e.using + 1) = "END" THEN 1 ELSE 0
  IN IF u = 0 THEN t                          (* the error block returns   *)
     ELSE IF e.using >= u
     THEN [longjmp(t, e, -1, exc) EXCEPT !.stack = Append(Height(@, e.stack), exc),
                                         !.usingstk = e.using, !.seqjmp = j - 1]
     ELSE [longjmp(t, e, u - e.using - finally, exc) EXCEPT      (* the recover pops the exception *)
             !.stack = Height(@, e.stack), !.usingstk = e.using, !.seqjmp = j]

break(t, exc, bbflag) ==
  LET u == Search(t, exc, bbflag)
      j == Record(t, u)
      e == t.seqjmpbuf[j]
      finally == IF Place(t.usingstkbuf, e.using + 1) = "END" THEN 1 ELSE 0
  IN IF u = 0 THEN t                          (* the error block returns   *)
     ELSE IF e.using >= u
     THEN [longjmp(t, e, -1, exc) EXCEPT !.stack = Append(Height(@, e.stack), exc),
                                         !.usingstk = e.using, !.seqjmp = j - 1]
     ELSE [longjmp(t, e, u - e.using - finally, exc) EXCEPT      (* the recover pops the exception *)
             !.stack = Height(@, e.stack), !.usingstk = e.using + finally, !.seqjmp = j]

(* Mutant: the stack is left as it is.                                     *)
begseqpopStack(t, seq, vals) ==
  LET e == t.seqjmpbuf[t.seqjmp]
  IN [longjmp(t, e, seq, "NIL") EXCEPT !.stack = @ \o vals, !.usingstk = e.using, !.seqjmp = @ - 1]

(* begseqpop_ret, begseqpop_loop, begseqpop_exit.                          *)
begseqpop(t, seq, vals) ==
  LET e == t.seqjmpbuf[t.seqjmp]
  IN [longjmp(t, e, seq, "NIL") EXCEPT !.stack = Height(@, e.stack) \o vals,
                                !.usingstk = e.using, !.seqjmp = @ - 1]

return(t) ==
  LET n == Innermost(t, "call") IN
  IF RetDepth(t) > 0 THEN begseqpop(t, -2, <<"value">>)
  ELSE [t EXCEPT !.frames = SubSeq(@, 1, n - 1), !.stack = Height(@, t.frames[n].at), !.trace = @ - 1]

loop(t) ==
  IF LoopDepth(t) > 0 THEN begseqpop(t, -3, <<>>)
  ELSE [t EXCEPT !.frames = SubSeq(@, 1, Innermost(t, "loop"))]

exit(t) ==
  IF LoopDepth(t) > 0 THEN begseqpop(t, -4, <<>>)
  ELSE [t EXCEPT !.frames = SubSeq(@, 1, Innermost(t, "loop") - 1)]

(* After the finally.                                                      *)
Dispatch(t, seq) ==
  CASE seq >= 0 -> t
    [] seq = -1 -> LET exc == Last(t.stack) IN break([t EXCEPT !.stack = Front(@)], exc, FALSE)
    [] seq = -2 -> return(t)
    [] seq = -3 -> loop(t)
    [] seq = -4 -> exit(t)

-----------------------------------------------------------------------------
Init ==
  /\ th = [frames |-> <<Frame("call", NoText, 0)>>, stack |-> <<"arg">>, trace |-> 1,
           usingstkbuf |-> <<>>, usingstk |-> 0, seqjmpbuf |-> <<>>, seqjmp |-> 0]
  /\ use \in Uses

here == th.frames[Len(th.frames)]

(* Where statements are executed: not in a finally that is not there.      *)
Running == here.phase \in {"body", "recover"} \/ (here.phase = "finally" /\ here.text.fin)

Room == Len(th.frames) < use.depth

(* In the expression of a recover, whose slot is the next to be written.   *)
InExpression == /\ use.calls /\ here.phase = "using" /\ here.seq < Len(Slots(here.text))
                /\ Slots(here.text)[here.seq + 1] \notin {"END", "NIL"}

Call ==
  /\ Room
  /\ Running \/ InExpression
  /\ th' = [th EXCEPT !.frames = Append(@, Frame("call", NoText, Len(th.stack))),
                      !.stack = Append(@, "arg"), !.trace = @ + 1]
  /\ UNCHANGED use

Loop ==
  /\ Room /\ Running /\ use.loops
  /\ th' = [th EXCEPT !.frames = Append(@, Frame("loop", NoText, 0))]
  /\ UNCHANGED use

(* The record is filled before the slots, its jmpb by setjmp.              *)
Begin(text) ==
  /\ Room /\ Running
  /\ th' = [th EXCEPT !.frames = Append(@, [Frame("sequence", text, 0) EXCEPT !.phase = "using"]),
                      !.seqjmpbuf = Append(SubSeq(@, 1, th.seqjmp),
                                           [stack |-> Len(th.stack), trace |-> th.trace,
                                            using |-> th.usingstk, frame |-> 0])]
  /\ UNCHANGED use

(* A slot is written above the top.                                        *)
Using ==
  LET n == here.seq + 1 IN
  /\ here.phase = "using" /\ n <= Len(Slots(here.text))
  /\ th' = [th EXCEPT !.usingstkbuf = Stored(@, th.usingstk + n, Slots(here.text)[n]),
                      !.frames[Len(th.frames)].seq = n]
  /\ UNCHANGED use

(* setjmp; the body begins with the break block on the stack.              *)
Enter ==
  /\ here.phase = "using" /\ here.seq = Len(Slots(here.text))
  /\ th' = [th EXCEPT !.frames[Len(th.frames)].phase = "body",
                      !.frames[Len(th.frames)].seq = 0,
                      !.usingstk = @ + here.seq,
                      !.seqjmp = @ + 1,
                      !.seqjmpbuf[th.seqjmp + 1].frame = Len(th.frames),
                      !.stack = Append(@, here.text.block)]
  /\ UNCHANGED use

Break(exc) ==
  /\ Running
  /\ th' = break(th, exc, TRUE)
  /\ UNCHANGED use

Return ==
  /\ Running
  /\ Innermost(th, "call") > 1
  /\ th' = return(th)
  /\ UNCHANGED use

(* Out of a finally that ends a break or a return without leaving the      *)
(* exception or the value of the return on the stack.                      *)
Clean == \A i \in Max({Innermost(th, "loop"), Innermost(th, "call")})+1..Len(th.frames) :
           th.frames[i].phase = "finally" => th.frames[i].seq \notin {-1, -2}

Jump ==
  /\ Running /\ InLoop(th)
  /\ use.leaks \/ Clean
  /\ th' \in {loop(th), exit(th)}
  /\ UNCHANGED use

(* A loop comes to its end.                                                *)
LoopEnds ==
  /\ here.kind = "loop"
  /\ th' = [th EXCEPT !.frames = Front(@)]
  /\ UNCHANGED use

(* The end of the body, which pops the break block, or of a recover.       *)
PartEnds ==
  /\ here.kind = "sequence" /\ here.phase \in {"body", "recover"}
  /\ th' = [th EXCEPT !.frames[Len(th.frames)].phase = "finally",
                      !.stack = IF here.phase = "body" THEN Front(@) ELSE @,
                      !.seqjmp = @ - 1,
                      !.usingstk = th.seqjmpbuf[th.seqjmp].using]
  /\ UNCHANGED use

FinallyEnds ==
  /\ here.kind = "sequence" /\ here.phase = "finally"
  /\ th' = Dispatch([th EXCEPT !.frames = Front(@)], here.seq)
  /\ UNCHANGED use

Next ==
  \/ Call \/ Loop \/ Using \/ Enter \/ Return \/ Jump \/ LoopEnds \/ PartEnds \/ FinallyEnds
  \/ \E text \in use.texts : Begin(text)
  \/ \E exc \in use.excs : Break(exc)

Spec == Init /\ [][Next]_vars

-----------------------------------------------------------------------------
(* The sequences that are being executed, the pending parts excepted.      *)
Live == {i \in DOMAIN th.frames :
           th.frames[i].kind = "sequence" /\ th.frames[i].phase \in {"body", "recover"}}

SlotsOf(f) == IF f.phase = "body" THEN Slots(f.text) ELSE IF f.text.fin THEN <<"END">> ELSE <<>>

(* Where the slots of record n begin: those below it end there.            *)
Bottom(n) == IF n > th.seqjmp THEN th.usingstk ELSE th.seqjmpbuf[n].using

(* Both stacks follow the program: there is a record for every sequence    *)
(* whose body or recover is executed and for no other, and the slots are   *)
(* those of their finallys and, in the body, of their recovers.            *)
SlotsExact ==
  /\ {th.seqjmpbuf[n].frame : n \in 1..th.seqjmp} = Live
  /\ \A m, n \in 1..th.seqjmp : m < n => th.seqjmpbuf[m].frame < th.seqjmpbuf[n].frame
  /\ Bottom(1) = 0
  /\ \A n \in 1..th.seqjmp :
       SubSeq(th.usingstkbuf, Bottom(n) + 1, Bottom(n + 1)) = SlotsOf(th.frames[th.seqjmpbuf[n].frame])

(* What a frame may have on the stack: an argument, the break block, or    *)
(* the exception or value that waits for the end of the finally.           *)
OnStack(f) == f.kind = "call" \/ (f.kind = "sequence" /\ (f.phase = "body" \/ f.seq \in {-1, -2}))

(* The stack and the trace are as high as the code that runs expects them, *)
(* however control came there.                                             *)
StackExact ==
  /\ Len(th.stack) = Cardinality({i \in DOMAIN th.frames : OnStack(th.frames[i])})
  /\ th.trace = Cardinality({i \in DOMAIN th.frames : th.frames[i].kind = "call"})

(* break.cpp:88-90: a sequence whose break block gives something else than *)
(* NIL does not catch the exception.                                       *)
RejectionsHold == \A i \in DOMAIN th.frames : th.frames[i].phase = "recover" => th.frames[i].text.block # "reject"

-----------------------------------------------------------------------------
(* Exceptions, with the slots, the records and the stack left out.  In a   *)
(* sequence without a finally that is only passed control is on its way.   *)
U == INSTANCE Unwinding

Nesting ==
  [i \in DOMAIN th.frames |-> LET f == th.frames[i] IN
     [kind |-> f.kind, text |-> f.text, phase |-> f.phase, way |-> U!Nowhere,
      rec |-> IF f.phase = "recover" THEN Len(Recovers(f.text)) + 1 - f.seq ELSE 0,
      exc |-> IF f.phase = "recover" THEN f.exc ELSE "NIL"]]

Outcome(i) ==
  LET below == SubSeq(Nesting, 1, i - 1)
      seq == th.frames[i].seq
  IN CASE seq >= 0 -> U!Nowhere
       [] seq = -1 -> U!Break(below, th.frames[i].exc)
       [] seq = -2 -> U!Return(below)
       [] seq = -3 -> U!Jump(below, "loop")
       [] seq = -4 -> U!Jump(below, "exit")

Passed == here.phase = "finally" /\ ~here.text.fin

Control ==
  LET c == [i \in DOMAIN Nesting |->
              IF Nesting[i].phase = "finally" THEN [Nesting[i] EXCEPT !.way = Outcome(i)] ELSE Nesting[i]]
  IN IF Passed THEN Front(c) ELSE c

Promised == INSTANCE Exceptions
  WITH control <- Control, way <- IF Passed THEN Outcome(Len(th.frames)) ELSE U!Nowhere

(* What break.cpp and the generated code do is what the language promises. *)
ImplementsExceptions == Promised!Spec
=============================================================================
