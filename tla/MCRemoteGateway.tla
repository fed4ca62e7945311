---------------------------- MODULE MCRemoteGateway ----------------------------
(* Small instances of RemoteGateway for TLC. *)
EXTENDS RemoteGateway, TLC

\* Ids that no definition tells apart.
Interchangeable ==
  Permutations(Requests) \cup Permutations(Gateways)
    \cup Permutations(Sessions) \cup Permutations(Subjects)
===============================================================================
