----------------------------- MODULE Unwinding ------------------------------
(***************************************************************************)
(* How control leaves functions, loops and sequences, told in terms of     *)
(* their nesting alone (control, a sequence of frames): where a break, a   *)
(* return, a loop or an exit ends, and where it stops on its way.          *)
(***************************************************************************)
EXTENDS Integers, Sequences, FiniteSetsExt

CONSTANTS
  Exception,    (* types of exceptions                                     *)
  Text,         (* begin statements: their recovers, finally, break block  *)
  Bases         (* the classes an exception is derived from                *)

Nowhere == [how |-> "end", exc |-> "NIL", to |-> 0]

Plain(kind, text) == [kind |-> kind, text |-> text, phase |-> "body", rec |-> 0, exc |-> "NIL", way |-> Nowhere]

NoText == [recs |-> <<>>, fin |-> FALSE, block |-> "NIL"]

(* Without RECOVER and FINALLY everything is caught.                       *)
Recovers(text) == IF text.recs = <<>> /\ ~text.fin THEN <<"NIL">> ELSE text.recs

Compatible(rec, exc) == rec = "NIL" \/ rec = exc \/ rec \in Bases[exc]

Matching(text, exc) == {n \in DOMAIN Recovers(text) : Compatible(Recovers(text)[n], exc)}

Catching(c, exc) == {i \in DOMAIN c : /\ c[i].kind = "sequence" /\ c[i].phase = "body"
                                      /\ c[i].text.block # "reject" /\ Matching(c[i].text, exc) # {}}

Innermost(c, kind) == Max({0} \cup {i \in DOMAIN c : c[i].kind = kind})

InLoop(c) == Innermost(c, "loop") > Innermost(c, "call")

Break(c, exc) == [how |-> "break", exc |-> exc, to |-> Max({0} \cup Catching(c, exc))]
Return(c) == [how |-> "return", exc |-> "NIL", to |-> Innermost(c, "call")]
Jump(c, how) == [how |-> how, exc |-> "NIL", to |-> Innermost(c, "loop")]

(* The next frame that is not just dropped.                                *)
Stop(c, w) == Max({w.to} \cup {i \in w.to..Len(c) : c[i].text.fin /\ c[i].phase \in {"body", "recover"}})

Cut(c, n) == SubSeq(c, 1, n)

Finally(frame, w) == [frame EXCEPT !.phase = "finally", !.rec = 0, !.exc = "NIL", !.way = w]

Arrive(c, w) ==
  LET n == Stop(c, w) IN
  CASE n # w.to -> [Cut(c, n) EXCEPT ![n] = Finally(@, w)]
    [] n = w.to /\ w.how = "break" ->
         [Cut(c, n) EXCEPT ![n].phase = "recover", ![n].exc = w.exc, ![n].rec = Min(Matching(c[n].text, w.exc))]
    [] n = w.to /\ w.how = "loop" -> Cut(c, n)
    [] n = w.to /\ w.how \in {"return", "exit"} -> Cut(c, n - 1)
=============================================================================
