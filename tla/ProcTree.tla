------------------------------ MODULE ProcTree ------------------------------
(***************************************************************************)
(* What fork, exit, wait promise together: a tree of processes, in which   *)
(* the children of a process that exits become init's in the same instant, *)
(* and every process that has exited is reported once, to its parent.      *)
(***************************************************************************)
CONSTANTS Pids,     \* process identifiers
          InitPid   \* the first process
VARIABLES status,   \* by pid: none (not yet born), live, zombie or gone
          par       \* by pid: the parent of a live process or a zombie

NoPid == 0

Init == /\ status = [i \in Pids |-> IF i = InitPid THEN "live" ELSE "none"]
        /\ par = [i \in Pids |-> NoPid]

\* p's child c starts
Fork(p, c) == /\ status[p] = "live" /\ status[c] = "none"
              /\ status' = [status EXCEPT ![c] = "live"]
              /\ par' = [par EXCEPT ![c] = p]

\* a pid that was given out, and its fork failed
Drop(c) == /\ status[c] = "none"
           /\ status' = [status EXCEPT ![c] = "gone"]
           /\ UNCHANGED par

Exit(p) == /\ status[p] = "live" /\ p # InitPid
           /\ status' = [status EXCEPT ![p] = "zombie"]
           /\ par' = [i \in Pids |-> IF par[i] = p THEN InitPid ELSE par[i]]

\* p learns that its child c has exited
Reap(p, c) == /\ status[p] = "live" /\ status[c] = "zombie" /\ par[c] = p
              /\ status' = [status EXCEPT ![c] = "gone"]
              /\ par' = [par EXCEPT ![c] = NoPid]

Next == \E p, c \in Pids : Fork(p, c) \/ Drop(c) \/ Exit(p) \/ Reap(p, c)

Spec == Init /\ [][Next]_<<status, par>>
=============================================================================
