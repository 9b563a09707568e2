---------------------------- MODULE MCSleeplock ----------------------------
(***************************************************************************)
(* One sleep lock beside whatever else its processes do: the names here    *)
(* are free of those that every component has, so that a module may extend *)
(* this one and another user of SleepWakeup.                               *)
(***************************************************************************)
EXTENDS SleepWakeup

VARIABLES lk, locked, pid, lpc    \* those of Sleeplock; lpc is its pc

SL == INSTANCE Sleeplock WITH pc <- lpc

LockSpec == SL!Spec

\* acquiresleep() returns to one process at a time, which is lk->pid
Exclusion == SL!Exclusion

\* nobody sleeps on a free lock without a wakeup on its way
NoLostWakeup == SL!NoLostWakeup

\* a sleep lock is a mutex that does not stay free while it is wanted
IsMutex == SL!IsMutex
=============================================================================
