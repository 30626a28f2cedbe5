--------------------------- MODULE EvaluatorClaims ---------------------------
(***************************************************************************)
(* What assertions and comments of the source say of the evaluator and     *)
(* what the evaluator does not keep.  A run of its own refutes each.       *)
(***************************************************************************)
EXTENDS EvaluatorRefinement

(* The assertion that EvaluateCell opens with, main.c:2462: its callers    *)
(* ask for cells of the table only.  The loops over a range clamp it to    *)
(* Cols and Rows, and both ends are inclusive: where the table is exactly  *)
(* as big as the rows that use it, they ask for one row too many.          *)
OnlyExisting == In("EVALUATE") => CellExists(ctl.at)

(* The assertion of col, main.c:2137: it has one argument.  The table of   *)
(* forms lets it have none only.                                           *)
ColHasArgument == (In("APPLY") /\ ctl.func = "COL" /\ WellTyped("COL", ctl.args)) => Arity = 1

(* The comment on ERROR_RELATIVE, mem.h:48: it stands for a relative       *)
(* reference that was used improperly.  AbsoluteDim stops the program      *)
(* before EvaluateIntoNode can give the error.                             *)
RelativeIsError ==
    (Reducing("CELL") /\ ~RefOK(N, Here)) ~> (In("VALUE") /\ ctl.value = ErrorNode("RELATIVE"))

(* The comment on ERROR_SUB, mem.h:45: it stands for a referenced cell     *)
(* that was an error.  A reference copies the error of the cell instead;   *)
(* ERROR_SUB is what the cells of a circular reference get.                *)
SubIsReferencedError ==
    \A a \in Printed :
        (files[a].type = "EXPR" /\ files[a].expr.type = "CELL") =>
            \A b \in Reads(a) :
                (b \in Addr /\ cell[b].type = "ERROR") => cell[a] = ErrorNode("SUB")
=============================================================================
