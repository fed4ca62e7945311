--------------------------- MODULE MCCredentialStore ---------------------------
(* Small instances of CredentialStore for TLC: o1 and o2 are CLI commands, *)
(* m1 and m2 are tasks of the MCP server.                                  *)
EXTENDS CredentialStore, TLC

CONSTANTS o1, o2, m1, m2, cli1, cli2, mcp, p1

WorkerProcess ==
  [w \in Workers |-> CASE w = o1 -> cli1 [] w = o2 -> cli2 [] OTHER -> mcp]

OneProvider == [a \in Accounts |-> p1]

\* Ids are interchangeable, and so are the tasks of the MCP server.
Interchangeable == Permutations(Secrets) \cup Permutations(Workers \cap {m1, m2})
===============================================================================
