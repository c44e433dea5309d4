--------------------------- MODULE MC_PollServer ---------------------------
(* PollServer for TLC.  The clients are interchangeable.                   *)
EXTENDS PollServer, TLC

Symmetry == Permutations(Clients)
=============================================================================
