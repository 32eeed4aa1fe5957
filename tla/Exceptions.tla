----------------------------- MODULE Exceptions -----------------------------
(***************************************************************************)
(* What BEGIN SEQUENCE promises: a break goes to the innermost sequence    *)
(* that accepts it, return, loop and exit leave what encloses them, and on *)
(* the way out every FINALLY runs once, from the inside outwards.  Where   *)
(* the way ends is settled when it begins.                                 *)
(***************************************************************************)
EXTENDS Unwinding

VARIABLES
  control,      (* functions, loops and sequences that are being executed  *)
  way           (* how control leaves some of them at the moment           *)

(* The way to the next stop takes one step or several.                     *)
Go(c, w) ==
  \/ control' = Arrive(c, w) /\ way' = Nowhere
  \/ \E n \in Stop(c, w)..Len(c) : control' = Cut(c, n) /\ way' = w

-----------------------------------------------------------------------------
Top == control[Len(control)]

Init == control = <<Plain("call", NoText)>> /\ way = Nowhere

(* The expressions of the recovers are evaluated before the sequence.      *)
Enter ==
  /\ way = Nowhere
  /\ \/ \E kind \in {"call", "loop"} : control' = Append(control, Plain(kind, NoText))
     \/ \E text \in Text : control' = Append(control, [Plain("sequence", text) EXCEPT !.phase = "using"])
     \/ /\ Top.phase = "using"
        /\ control' = [control EXCEPT ![Len(control)].phase = "body"]
  /\ UNCHANGED way

(* A break nobody catches goes to the error block and changes nothing.     *)
Leave ==
  /\ way = Nowhere
  /\ \/ \E exc \in Exception : Break(control, exc).to # 0 /\ Go(control, Break(control, exc))
     \/ Return(control).to > 1 /\ Go(control, Return(control))
     \/ InLoop(control) /\ \E how \in {"loop", "exit"} : Go(control, Jump(control, how))

(* The end of a loop or of a part of a sequence.                           *)
End ==
  /\ way = Nowhere
  /\ Top.kind # "call" /\ Top.phase # "using"
  /\ IF Top.kind = "sequence" /\ Top.phase = "finally" /\ Top.way # Nowhere
     THEN Go(Cut(control, Len(control) - 1), Top.way)
     ELSE /\ control' = IF Top.text.fin /\ Top.phase # "finally"
                        THEN [control EXCEPT ![Len(control)] = Finally(@, Nowhere)]
                        ELSE Cut(control, Len(control) - 1)
          /\ UNCHANGED way

GoOn == way # Nowhere /\ Go(control, way)

Next == Enter \/ Leave \/ End \/ GoOn

Spec == Init /\ [][Next]_<<control, way>>
=============================================================================
