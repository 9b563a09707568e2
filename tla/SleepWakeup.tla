---------------------------- MODULE SleepWakeup ----------------------------
(***************************************************************************)
(* sleep_prepare(), sleep(), wakeup() and kkill() of src/xv6/kernel/proc.c *)
(* as the actions that every blocking part of the kernel is built from:    *)
(* Sleeplock, Pipe, ProcLife, Log and Virtio extend this module.           *)
(*                                                                         *)
(* A step is one critical section of one p->lock.  That is sound for       *)
(* sleep() too, although it switches away with p->lock held: the scheduler *)
(* releases the lock once the stack is saved (module Mlfq), and until then *)
(* nobody can look at the process.  RUNNING and RUNNABLE are one state     *)
(* here, "RUNNABLE": which of the two it is, is the scheduler's business.  *)
(***************************************************************************)
EXTENDS Integers, FiniteSets

CONSTANT N    \* NPROC

ASSUME NAssumption == N \in Nat \ {0}

Procs  == 1..N
NoChan == <<>>    \* p->chan = 0; a channel is a tuple that names an address

VARIABLES
    state,    \* p->state
    chan,     \* p->chan
    killed,   \* p->killed
    scan      \* the loop variable of a wakeup() in progress, by caller

sleepVars == <<state, chan, killed, scan>>

\* register p as waiting for wakeups on ch
sleep_prepare(p, ch) ==
    /\ chan' = [chan EXCEPT ![p] = ch]
    /\ UNCHANGED <<state, killed, scan>>

\* go to sleep, unless the channel has been woken up since sleep_prepare()
sleepUnchecked(p) ==  \* seeded fault: a wakeup since sleep_prepare is missed
    /\ state' = [state EXCEPT ![p] = "SLEEPING"]
    /\ UNCHANGED <<chan, killed, scan>>

sleep(p) ==
    /\ state' = IF chan[p] # NoChan
                THEN [state EXCEPT ![p] = "SLEEPING"] ELSE state
    /\ UNCHANGED <<chan, killed, scan>>

\* the first thing wakeup() does is to start at the first slot
WakeupCall(w) == scan' = [scan EXCEPT ![w] = 1]

\* wakeup(ch) called by w looks at its next process
wakeupSleepers(w, ch) ==  \* seeded fault: only processes already asleep count
    LET p == scan[w]
        woken == chan[p] = ch /\ state[p] = "SLEEPING"
    IN  /\ p \in Procs
        /\ scan' = [scan EXCEPT ![w] = p + 1]
        /\ chan' = IF woken THEN [chan EXCEPT ![p] = NoChan] ELSE chan
        /\ state' = IF woken
                    THEN [state EXCEPT ![p] = "RUNNABLE"] ELSE state
        /\ UNCHANGED killed

wakeup(w, ch) ==
    LET p == scan[w]
    IN  /\ p \in Procs
        /\ scan' = [scan EXCEPT ![w] = p + 1]
        /\ chan' = IF chan[p] = ch THEN [chan EXCEPT ![p] = NoChan] ELSE chan
        /\ state' = IF chan[p] = ch /\ state[p] = "SLEEPING"
                    THEN [state EXCEPT ![p] = "RUNNABLE"] ELSE state
        /\ UNCHANGED killed

\* wakeup() has looked at every process
WakeupDone(w) == scan[w] = N + 1

\* wakeup(ch) in one step, for a caller that holds the lock under which every
\* sleeper of ch calls sleep_prepare(): nobody can join or leave ch meanwhile
wakeupAll(ch) ==
    /\ chan' = [p \in Procs |-> IF chan[p] = ch THEN NoChan ELSE chan[p]]
    /\ state' = [p \in Procs |-> IF chan[p] = ch /\ state[p] = "SLEEPING"
                                 THEN "RUNNABLE" ELSE state[p]]
    /\ UNCHANGED <<killed, scan>>

\* kkill() finds its victim: chan stays, so a later wakeup() clears it
kkill(p) ==
    /\ killed' = [killed EXCEPT ![p] = TRUE]
    /\ state' = IF state[p] = "SLEEPING"
                THEN [state EXCEPT ![p] = "RUNNABLE"] ELSE state
    /\ UNCHANGED <<chan, scan>>
=============================================================================
