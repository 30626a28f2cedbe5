------------------------ MODULE EvaluatorRefinement ------------------------
(***************************************************************************)
(* The evaluator implements Dataflow.                                      *)
(***************************************************************************)
EXTENDS EvaluatorProps, Denotation

(* A document that is not loaded yet has the cells of its file. *)
SheetCells == [a \in Addr |-> IF a[1] \in loaded THEN cell[a] ELSE files[a]]

DF == INSTANCE Dataflow WITH cell <- SheetCells, Contents <- [Addr -> Cell],
                        Denoted <- Denoted

(* Every cell the evaluator stores has the value its expression denotes    *)
(* over final cells, circular references being the only pending cells it   *)
(* reads; loading a document, in whatever order, changes no value.         *)
ImplementsDataflow == DF!Spec
=============================================================================
