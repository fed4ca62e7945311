----------------------------- MODULE MCActionFiles -----------------------------
(* The instance of ActionFiles for TLC.                                      *)
EXTENDS ActionFiles

\* Action b and the others have files of their own.
MCFileOf == [n \in Names |-> IF n = "b" THEN "b.yaml" ELSE "a.yaml"]
===============================================================================
