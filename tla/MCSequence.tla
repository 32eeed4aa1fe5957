---------------------------- MODULE MCSequence -----------------------------
(* Model-checking instances of Sequence.                                    *)
EXTENDS Sequence

T(recs, fin, block) == [recs |-> recs, fin |-> fin, block |-> block]

Bare == T(<<>>, FALSE, "NIL")
Final == T(<<>>, TRUE, "NIL")
Catchall == T(<<"NIL">>, FALSE, "NIL")
Both == T(<<"derived", "base">>, TRUE, "NIL")
Typed == T(<<"derived", "text">>, FALSE, "NIL")
Picky == T(<<"base", "NIL">>, FALSE, "reject")
PickyFinal == T(<<"base">>, TRUE, "reject")

MCText == {Bare, Final, Catchall, Both, Typed, Picky, PickyFinal}
MCException == {"base", "derived", "text"}
MCBases == [x \in MCException |-> IF x = "derived" THEN {"base"} ELSE {}]

Use(texts, excs, depth, loops) ==
  [texts |-> texts, excs |-> excs, depth |-> depth, loops |-> loops, calls |-> FALSE, leaks |-> FALSE]

MCUses == {Use({Both, Typed}, MCException, 5, FALSE),
           Use({Bare, Picky}, {"derived", "text"}, 5, FALSE),
           Use({Final, Catchall}, {"text"}, 5, TRUE)}

(* What lies above the tops is read only while a sequence is prepared, and  *)
(* the place just above the types when a recover breaks.                    *)
Seen == IF \E i \in DOMAIN th.frames : th.frames[i].phase = "using" THEN th
        ELSE [th EXCEPT !.seqjmpbuf = SubSeq(@, 1, th.seqjmp),
                        !.usingstkbuf = SubSeq(@, 1, Min({Len(@), th.usingstk + 1}))]

View == <<Seen, use>>

MCReject == {Use({Catchall, Final, Picky}, {"text"}, 5, FALSE)}
MCExpression == {[Use({Typed, Both, Final}, {"text"}, 5, FALSE) EXCEPT !.calls = TRUE]}
MCLeaks == {[Use({Final}, {"text"}, 5, TRUE) EXCEPT !.leaks = TRUE]}
=============================================================================
