------------------------------- MODULE MCLog -------------------------------
(***************************************************************************)
(* A small instance of Log for TLC, in two worlds.  In "crashes" two       *)
(* processes make calls and power fails at any step; in "crowd" all        *)
(* processes do, on more blocks, and nothing crashes.  A world only limits *)
(* what the environment asks for, never what log.c does.                   *)
(***************************************************************************)
EXTENDS Log, TLC

CONSTANT Spare          \* the blocks written in the "crowd" only

VARIABLE world

\* log.c treats all blocks alike, and never looks into one
Symmetry == Permutations(Blocks \ Spare) \cup Permutations(Vals)

Crashes == /\ world = "crashes"
           /\ pc'[N] = "idle" /\ \A p \in Procs : ~killed'[p]
           /\ \A i \in DOMAIN block' : block'[i] \notin Spare

Crowd == /\ world = "crowd"
         /\ rec = "up" => rec' = "up"
         /\ home' = home /\ cache' = cache

MCInit == Init /\ world \in {"crashes", "crowd"}

MCSpec == MCInit /\ [][Next /\ (Crashes \/ Crowd) /\ UNCHANGED world]_<<vars, world>>
=============================================================================
