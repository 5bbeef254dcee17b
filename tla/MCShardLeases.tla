--------------------------- MODULE MCShardLeases ---------------------------
(***************************************************************************)
(* Small instances of ShardLeases for TLC.                                 *)
(***************************************************************************)
EXTENDS ShardLeases, TLC

CONSTANTS p1, p2

\* Targets 1 and 3 prefer low collector ids, target 2 high ones; a process
\* name ranks between the ordinals 0 and 1, p1 below p2.
MCRank(c) == IF c \in Ordinals THEN 10 * c ELSE IF c = p1 THEN 5 ELSE 6
MCScore == [tc \in Targets \X Ids |->
              IF tc[1] % 2 = 1 THEN 100 - MCRank(tc[2]) ELSE MCRank(tc[2])]

\* Processes of the same configuration are interchangeable.
MCSymmetry == Permutations(Procs)
=============================================================================
