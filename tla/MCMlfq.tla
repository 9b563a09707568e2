------------------------------- MODULE MCMlfq -------------------------------
(* Small instances of Mlfq for TLC. *)
EXTENDS Mlfq

\* Slices that grow with the queue, scaled from 1, 4, 8, 16
MCSlice == [l \in Levels |-> IF l = 0 THEN 1 ELSE 2]

\* Processes that only compute: none of them sleeps or exits
CpuBoundNext == Next /\ \A p \in Procs : state'[p] \notin {"SLEEPING", "ZOMBIE"}
CpuBoundSpec == Init /\ [][CpuBoundNext]_vars /\ Fairness
=============================================================================
