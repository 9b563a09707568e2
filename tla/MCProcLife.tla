---------------------------- MODULE MCProcLife ----------------------------
(***************************************************************************)
(* The life of processes beside their other uses of sleep(): the names     *)
(* here are free of those that every component has, so that a module may   *)
(* extend this one and another user of SleepWakeup.                        *)
(***************************************************************************)
EXTENDS SleepWakeup

CONSTANTS MaxPid, KillTargets    \* those of ProcLife

ASSUME MaxPidAssumption == MaxPid \in Nat \ {0}
ASSUME KillAssumption   == KillTargets \subseteq 0..MaxPid \ {1}

VARIABLES procpid, parent, nextpid, wait_lock, procpc, pp, arg, havekids,
          bornTo    \* those of ProcLife; procpid is its pid, procpc its pc

PL == INSTANCE ProcLife WITH pid <- procpid, pc <- procpc

LifeSpec == PL!Spec

\* a parent pointer names a live process: the one that forked the child, or init
ParentsLive == PL!Inv

\* nobody sleeps in kwait() while a child of its is a ZOMBIE
NoLostExit == PL!NoLostExit

\* fork, exit and wait maintain a tree, in which each exit is reported once
IsProcTree == PL!IsProcTree
=============================================================================
