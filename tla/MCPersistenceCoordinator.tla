---------------------- MODULE MCPersistenceCoordinator ----------------------
(* Instance of PersistenceCoordinator for TLC; calls and Sessions are       *)
(* interchangeable.                                                        *)
EXTENDS PersistenceCoordinator, TLC

Symmetry == Permutations(Callers) \cup Permutations(Sessions)

=============================================================================
