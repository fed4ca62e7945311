--------------------------- MODULE MCActionExecution ---------------------------
(* Small instances of ActionExecution for TLC.                             *)
EXTENDS ActionExecution, TLC

CONSTANTS p1

OneProvider == [q \in Requests |-> p1]

\* Safety only: invocations and tickets are interchangeable.
Interchangeable == Permutations(Invocations) \cup Permutations(Tickets)
===============================================================================
