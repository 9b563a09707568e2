-------------------------------- MODULE Mlfq --------------------------------
(***************************************************************************)
(* The MLFQ scheduler of src/xv6/kernel: the process table, the scheduler  *)
(* loop of every hart, the timer interrupt and its tick accounting, the    *)
(* priority boost, and the operations that move a process on or off the    *)
(* run queues (yield, sleep, wakeup, kill, fork, exit, wait).              *)
(*                                                                         *)
(* There are no queues in the code: a process is "in queue l" when it is   *)
(* RUNNABLE with queue_level l, and the scheduler finds the head by        *)
(* scanning the table.  A step is one critical section of a p->lock, or    *)
(* one access to a field that the code reads or writes without the lock.   *)
(* A spinlock keeps interrupts off, so a hart that holds a lock is not     *)
(* interrupted.                                                            *)
(***************************************************************************)
EXTENDS Integers, FiniteSets

CONSTANTS
    N,            \* NPROC, the slots of proc[] (slot 1 is initproc)
    NCpu,         \* the harts started (CPUS); hart 0 owns the clock
    Last,         \* the lowest queue: 3 in the code
    Slice,        \* Slice[l]: the ticks of a slice in queue l (1, 4, 8, 16)
    BoostPeriod,  \* ticks between two boosts (48)
    TickWrap,     \* ticks is a uint: it wraps at TickWrap (2^32)
    TickInScan    \* may the clock tick while a scan with work to do is under
                  \* way?  FALSE is the real-time assumption that scanning the
                  \* table takes far less than a tick

Procs  == 1..N
CPUs   == 0..(NCpu - 1)
Levels == 0..Last
NoProc == 0
NoCpu  == -1

ASSUME NAssumption     == N \in Nat \ {0}
ASSUME NCpuAssumption  == NCpu \in Nat \ {0}
ASSUME LastAssumption  == Last \in Nat \ {0}
ASSUME SliceAssumption == Slice \in [Levels -> Nat \ {0}]
ASSUME BoostAssumption == BoostPeriod \in Nat \ {0}
ASSUME WrapAssumption  == TickWrap \in Nat \ {0}
ASSUME ScanAssumption  == TickInScan \in BOOLEAN

VARIABLES
    state, queue_level, ticks_consumed, enter_time,  \* struct proc
    plock,      \* the hart that holds p->lock, or NoCpu
    child,      \* the local np of a kfork in progress, or NoProc
    ticks,      \* the clock
    cproc,      \* c->proc
    pc,         \* where each hart is
    pass, idx, best_p,        \* scheduler(): q, p and best_p
    k, loaded, max_ticks,     \* trap code: a loop index and two temporaries
    waiting     \* history: what has been RUNNABLE, and neither moved nor
                \* requeued, since hart c began its current scan or tick

procVars == <<state, queue_level, ticks_consumed, enter_time>>
scanVars == <<pass, idx, best_p>>
trapVars == <<k, loaded, max_ticks>>
vars == <<procVars, plock, child, ticks, cproc, pc, scanVars, trapVars, waiting>>

PCs == {"scan", "resume", "run", "boost", "clock", "load", "store", "level",
        "compare", "peek", "peeklevel", "yield", "demote", "sched"}

TypeOK ==
    /\ state \in [Procs -> {"UNUSED", "USED", "SLEEPING", "RUNNABLE",
                            "RUNNING", "ZOMBIE"}]
    /\ queue_level \in [Procs -> Levels]
    /\ ticks_consumed \in [Procs -> Nat]
    /\ enter_time \in [Procs -> Nat]
    /\ plock \in [Procs -> CPUs \cup {NoCpu}]
    /\ child \in [Procs -> Procs \cup {NoProc}]
    /\ ticks \in Nat
    /\ cproc \in [CPUs -> Procs \cup {NoProc}]
    /\ pc \in [CPUs -> PCs]
    /\ pass \in [CPUs -> Levels]
    /\ idx \in [CPUs -> 1..(N + 1)]
    /\ best_p \in [CPUs -> Procs \cup {NoProc}]
    /\ k \in [CPUs -> Nat]
    /\ loaded \in [CPUs -> Nat]
    /\ max_ticks \in [CPUs -> Nat]
    /\ waiting \in [CPUs -> SUBSET Procs]

-----------------------------------------------------------------------------
(* Helpers *)

Runnable == {p \in Procs : state[p] = "RUNNABLE"}

\* the order in which one pass of scheduler() prefers two processes of a queue:
\* the strict < keeps the first of a tie, which is the lower slot
Before(p, q) == \/ enter_time[p] < enter_time[q]
                \/ enter_time[p] = enter_time[q] /\ p < q

Goto(c, from, to) == pc[c] = from /\ pc' = [pc EXCEPT ![c] = to]

\* p left its place in the queues: no scan under way can count on it
Moved(p) == waiting' = [c \in CPUs |-> waiting[c] \ {p}]

\* where a trap handler returns to
AfterTrap(c) == IF cproc[c] = NoProc THEN "scan" ELSE "run"

\* hart c takes interrupts: it runs a process, or is between two iterations of
\* scheduler() and holds no lock
InterruptsOn(c) == pc[c] = "run" \/ (pc[c] = "scan" /\ best_p[c] = NoProc)

\* the process on hart c executes a system call, and is not inside kfork
InSyscall(c) == pc[c] = "run" /\ child[cproc[c]] = NoProc

-----------------------------------------------------------------------------
(* userinit(), and every hart entering scheduler() *)

Init ==
    /\ state = [p \in Procs |-> IF p = 1 THEN "RUNNABLE" ELSE "UNUSED"]
    /\ queue_level = [p \in Procs |-> 0]
    /\ ticks_consumed = [p \in Procs |-> 0]
    /\ enter_time = [p \in Procs |-> 0]
    /\ plock = [p \in Procs |-> NoCpu]
    /\ child = [p \in Procs |-> NoProc]
    /\ ticks = 0
    /\ cproc = [c \in CPUs |-> NoProc]
    /\ pc = [c \in CPUs |-> "scan"]
    /\ pass = [c \in CPUs |-> 0]
    /\ idx = [c \in CPUs |-> 1]
    /\ best_p = [c \in CPUs |-> NoProc]
    /\ k = [c \in CPUs |-> 0]
    /\ loaded = [c \in CPUs |-> 0]
    /\ max_ticks = [c \in CPUs |-> 0]
    /\ waiting = [c \in CPUs |-> {1}]

-----------------------------------------------------------------------------
(* scheduler() *)

\* acquire the next p->lock (spinning while another hart holds it); a better
\* candidate stays locked and the previous one is released
BetterOrEqual(c, p) ==  \* seeded fault: a tie goes to the later slot
    /\ state[p] = "RUNNABLE" /\ queue_level[p] = pass[c]
    /\ best_p[c] = NoProc \/ enter_time[p] <= enter_time[best_p[c]]

Better(c, p) == /\ state[p] = "RUNNABLE"
                /\ queue_level[p] = pass[c]
                /\ best_p[c] = NoProc \/ enter_time[p] < enter_time[best_p[c]]

ScanProcKeepsOld(c) ==  \* seeded fault: the previous candidate stays locked
    /\ pc[c] = "scan" /\ idx[c] <= N /\ plock[idx[c]] = NoCpu
    /\ idx' = [idx EXCEPT ![c] = @ + 1]
    /\ IF Better(c, idx[c])
       THEN /\ best_p' = [best_p EXCEPT ![c] = idx[c]]
            /\ plock' = [plock EXCEPT ![idx[c]] = c]
       ELSE UNCHANGED <<best_p, plock>>
    /\ UNCHANGED <<procVars, child, ticks, cproc, pc, pass, trapVars, waiting>>

ScanProc(c) ==
    /\ pc[c] = "scan" /\ idx[c] <= N
    /\ plock[idx[c]] = NoCpu
    /\ idx' = [idx EXCEPT ![c] = @ + 1]
    /\ IF Better(c, idx[c])
       THEN /\ best_p' = [best_p EXCEPT ![c] = idx[c]]
            /\ plock' = [p \in Procs |-> IF p = idx[c] THEN c
                                         ELSE IF p = best_p[c] THEN NoCpu
                                         ELSE plock[p]]
       ELSE UNCHANGED <<best_p, plock>>
    /\ UNCHANGED <<procVars, child, ticks, cproc, pc, pass, trapVars, waiting>>

\* the pass over queue q found nothing: go on to the next queue, or start over
NextPass(c) ==
    /\ pc[c] = "scan" /\ idx[c] = N + 1 /\ best_p[c] = NoProc
    /\ idx' = [idx EXCEPT ![c] = 1]
    /\ IF pass[c] < Last
       THEN /\ pass' = [pass EXCEPT ![c] = @ + 1]
            /\ UNCHANGED waiting
       ELSE /\ pass' = [pass EXCEPT ![c] = 0]
            /\ waiting' = [waiting EXCEPT ![c] = Runnable]
    /\ UNCHANGED <<procVars, plock, child, ticks, cproc, pc, best_p, trapVars>>

\* mark the choice RUNNING and swtch() to it, its lock still held
Select(c) ==
    /\ idx[c] = N + 1 /\ best_p[c] # NoProc
    /\ Goto(c, "scan", "resume")
    /\ state' = [state EXCEPT ![best_p[c]] = "RUNNING"]
    /\ cproc' = [cproc EXCEPT ![c] = best_p[c]]
    /\ waiting' = [d \in CPUs |-> IF d = c THEN {} ELSE waiting[d] \ {best_p[c]}]
    /\ idx' = [idx EXCEPT ![c] = 1]
    /\ pass' = [pass EXCEPT ![c] = 0]
    /\ UNCHANGED <<queue_level, ticks_consumed, enter_time, plock, child, ticks,
                   best_p, trapVars>>

\* the process side of that swtch(): yield, sleep or forkret drops p->lock
Resume(c) ==
    /\ Goto(c, "resume", "run")
    /\ plock' = [plock EXCEPT ![cproc[c]] = NoCpu]
    /\ UNCHANGED <<procVars, child, ticks, cproc, scanVars, trapVars, waiting>>

\* the scheduler side of sched()'s swtch(): c->proc = 0, release, next scan
SwitchBack(c) ==
    /\ Goto(c, "sched", "scan")
    /\ cproc' = [cproc EXCEPT ![c] = NoProc]
    /\ plock' = [plock EXCEPT ![best_p[c]] = NoCpu]
    /\ best_p' = [best_p EXCEPT ![c] = NoProc]
    /\ waiting' = [waiting EXCEPT ![c] = Runnable]
    /\ UNCHANGED <<procVars, child, ticks, pass, idx, trapVars>>

-----------------------------------------------------------------------------
(* clockintr() *)

MayTick(c) == \/ pc[c] = "run"
              \/ /\ pc[c] = "scan" /\ best_p[c] = NoProc
                 /\ TickInScan \/ Runnable = {}

\* hart 0 counts the tick; every BoostPeriod ticks it boosts
Clock(c) ==
    LET t == (ticks + 1) % TickWrap
    IN  /\ c = 0 /\ MayTick(c)
        /\ ticks' = t
        /\ IF t % BoostPeriod = 0
           THEN /\ pc' = [pc EXCEPT ![c] = "boost"]
                /\ k' = [k EXCEPT ![c] = 1]
           ELSE /\ pc' = [pc EXCEPT ![c] = "clock"]
                /\ UNCHANGED k
        /\ UNCHANGED <<procVars, plock, child, cproc, scanVars, loaded,
                       max_ticks, waiting>>

BoostLoop(c) ==
    IF k[c] < N
    THEN /\ k' = [k EXCEPT ![c] = @ + 1]
         /\ UNCHANGED pc
    ELSE /\ k' = [k EXCEPT ![c] = 0]
         /\ pc' = [pc EXCEPT ![c] = "clock"]

BoostKeepsTicks(c) ==  \* seeded fault: the used ticks survive the boost
    /\ pc[c] = "boost" /\ plock[k[c]] = NoCpu
    /\ queue_level' = [queue_level EXCEPT ![k[c]] = 0]
    /\ enter_time' = [enter_time EXCEPT ![k[c]] = ticks]
    /\ Moved(k[c]) /\ BoostLoop(c)
    /\ UNCHANGED <<state, ticks_consumed, plock, child, ticks, cproc, scanVars,
                   loaded, max_ticks>>

\* one iteration of the boost loop, under p->lock
BoostProc(c) ==
    /\ pc[c] = "boost" /\ plock[k[c]] = NoCpu
    /\ queue_level' = [queue_level EXCEPT ![k[c]] = 0]
    /\ ticks_consumed' = [ticks_consumed EXCEPT ![k[c]] = 0]
    /\ enter_time' = [enter_time EXCEPT ![k[c]] = ticks]
    /\ Moved(k[c]) /\ BoostLoop(c)
    /\ UNCHANGED <<state, plock, child, ticks, cproc, scanVars, loaded,
                   max_ticks>>

\* wakeup(&ticks) is done (its effect is Wakeup, enabled at "clock"): back to
\* usertrap() or kerneltrap(), which charge the tick only to a RUNNING process
ClockDone(c) ==
    /\ Goto(c, "clock", IF cproc[c] # NoProc /\ state[cproc[c]] = "RUNNING"
                        THEN "load" ELSE AfterTrap(c))
    /\ UNCHANGED <<procVars, plock, child, ticks, cproc, scanVars, trapVars,
                   waiting>>

\* the timer interrupt of another hart skips the clock (a process that is
\* killed and ends in it is Exit at "run")
OtherTimer(c) ==
    /\ c # 0 /\ Goto(c, "run", "load")
    /\ UNCHANGED <<procVars, plock, child, ticks, cproc, scanVars, trapVars,
                   waiting>>

-----------------------------------------------------------------------------
(* the tick, in usertrap() and kerneltrap(): no lock is held until yield() *)

\* ticks_consumed++ is a load and a store
TickLoad(c) ==
    /\ Goto(c, "load", "store")
    /\ loaded' = [loaded EXCEPT ![c] = ticks_consumed[cproc[c]]]
    /\ waiting' = [waiting EXCEPT ![c] = Runnable]
    /\ UNCHANGED <<procVars, plock, child, ticks, cproc, scanVars, k, max_ticks>>

TickStore(c) ==
    /\ Goto(c, "store", "level")
    /\ ticks_consumed' = [ticks_consumed EXCEPT ![cproc[c]] = loaded[c] + 1]
    /\ loaded' = [loaded EXCEPT ![c] = 0]
    /\ k' = [k EXCEPT ![c] = 0]
    /\ UNCHANGED <<state, queue_level, enter_time, plock, child, ticks, cproc,
                   scanVars, max_ticks, waiting>>

\* the ?: chain reads queue_level again for every queue it tests
LevelTest(c) ==
    /\ pc[c] = "level"
    /\ IF queue_level[cproc[c]] = k[c] \/ k[c] + 1 = Last
       THEN /\ max_ticks' = [max_ticks EXCEPT ![c] =
                   Slice[IF queue_level[cproc[c]] = k[c] THEN k[c] ELSE Last]]
            /\ k' = [k EXCEPT ![c] = 1]
            /\ pc' = [pc EXCEPT ![c] = "compare"]
       ELSE /\ k' = [k EXCEPT ![c] = @ + 1]
            /\ UNCHANGED <<max_ticks, pc>>
    /\ UNCHANGED <<procVars, plock, child, ticks, cproc, scanVars, loaded,
                   waiting>>

SliceUsed(c) ==
    /\ Goto(c, "compare", IF ticks_consumed[cproc[c]] >= max_ticks[c]
                          THEN "yield" ELSE "peek")
    /\ max_ticks' = [max_ticks EXCEPT ![c] = 0]
    /\ UNCHANGED <<procVars, plock, child, ticks, cproc, scanVars, k, loaded,
                   waiting>>

PeekNextShort(c) ==  \* seeded fault: the last slot is never looked at
    IF k[c] < N - 1
    THEN /\ k' = [k EXCEPT ![c] = @ + 1]
         /\ pc' = [pc EXCEPT ![c] = "peek"]
    ELSE /\ k' = [k EXCEPT ![c] = 0]
         /\ pc' = [pc EXCEPT ![c] = "run"]

\* the loop that looks for a RUNNABLE process of a higher queue
PeekNext(c) ==
    IF k[c] < N
    THEN /\ k' = [k EXCEPT ![c] = @ + 1]
         /\ pc' = [pc EXCEPT ![c] = "peek"]
    ELSE /\ k' = [k EXCEPT ![c] = 0]
         /\ pc' = [pc EXCEPT ![c] = "run"]

PeekState(c) ==
    /\ pc[c] = "peek"
    /\ IF state[k[c]] = "RUNNABLE"
       THEN /\ pc' = [pc EXCEPT ![c] = "peeklevel"]
            /\ UNCHANGED k
       ELSE PeekNext(c)
    /\ UNCHANGED <<procVars, plock, child, ticks, cproc, scanVars, loaded,
                   max_ticks, waiting>>

PeekLevel(c) ==
    /\ pc[c] = "peeklevel"
    /\ IF queue_level[k[c]] < queue_level[cproc[c]]
       THEN /\ pc' = [pc EXCEPT ![c] = "yield"]
            /\ k' = [k EXCEPT ![c] = 0]
       ELSE PeekNext(c)
    /\ UNCHANGED <<procVars, plock, child, ticks, cproc, scanVars, loaded,
                   max_ticks, waiting>>

-----------------------------------------------------------------------------
(* yield(): take p->lock and become RUNNABLE, then demote and requeue *)

YieldUnlocked(c) ==  \* seeded fault: p->lock is not taken
    /\ Goto(c, "yield", "demote")
    /\ state' = [state EXCEPT ![cproc[c]] = "RUNNABLE"]
    /\ k' = [k EXCEPT ![c] = 0]
    /\ UNCHANGED <<plock, queue_level, ticks_consumed, enter_time, child, ticks,
                   cproc, scanVars, loaded, max_ticks, waiting>>

YieldLock(c) ==
    /\ Goto(c, "yield", "demote")
    /\ plock[cproc[c]] = NoCpu
    /\ plock' = [plock EXCEPT ![cproc[c]] = c]
    /\ state' = [state EXCEPT ![cproc[c]] = "RUNNABLE"]
    /\ k' = [k EXCEPT ![c] = 0]
    /\ UNCHANGED <<queue_level, ticks_consumed, enter_time, child, ticks, cproc,
                   scanVars, loaded, max_ticks, waiting>>

Demote(c) ==
    LET p == cproc[c]
        exhausted == ticks_consumed[p] >= Slice[queue_level[p]]
    IN  /\ Goto(c, "demote", "sched")
        /\ queue_level' = [queue_level EXCEPT ![p] =
               IF exhausted /\ @ < Last THEN @ + 1 ELSE @]
        /\ ticks_consumed' = [ticks_consumed EXCEPT ![p] =
               IF exhausted THEN 0 ELSE @]
        /\ enter_time' = [enter_time EXCEPT ![p] = ticks]
        /\ Moved(p)
        /\ UNCHANGED <<state, plock, child, ticks, cproc, scanVars, trapVars>>

-----------------------------------------------------------------------------
(* the operations that block, wake, create and end a process *)

\* the end of sleep() with its channel still set (SleepWakeup.tla has the
\* protocol), and of kexit(): both enter sched() with p->lock held
LeaveCpu(c, s) ==
    /\ plock[cproc[c]] = NoCpu
    /\ plock' = [plock EXCEPT ![cproc[c]] = c]
    /\ state' = [state EXCEPT ![cproc[c]] = s]
    /\ pc' = [pc EXCEPT ![c] = "sched"]
    /\ UNCHANGED <<queue_level, ticks_consumed, enter_time, child, ticks, cproc,
                   scanVars, trapVars, waiting>>

Sleep(c) == InSyscall(c) /\ LeaveCpu(c, "SLEEPING")

\* usertrap() looks at killed(p) before it charges the tick
KilledInTick(c) ==
    pc[c] = "clock" /\ cproc[c] # NoProc /\ child[cproc[c]] = NoProc

\* "init exiting" panics
Exit(c) == /\ InSyscall(c) \/ KilledInTick(c)
           /\ cproc[c] # 1
           /\ LeaveCpu(c, "ZOMBIE")

\* one iteration of wakeup() that finds a sleeper on its channel, in a system
\* call, a device interrupt or clockintr()
Wakeup(c, p) ==
    /\ InterruptsOn(c) \/ pc[c] = "clock"
    /\ plock[p] = NoCpu /\ state[p] = "SLEEPING"
    /\ state' = [state EXCEPT ![p] = "RUNNABLE"]
    /\ enter_time' = [enter_time EXCEPT ![p] = ticks]
    /\ Moved(p)
    /\ UNCHANGED <<queue_level, ticks_consumed, plock, child, ticks, cproc, pc,
                   scanVars, trapVars>>

\* kkill() makes a sleeper RUNNABLE and leaves its enter_time
Kill(c, p) ==
    /\ InSyscall(c) /\ plock[p] = NoCpu /\ state[p] = "SLEEPING"
    /\ state' = [state EXCEPT ![p] = "RUNNABLE"]
    /\ Moved(p)
    /\ UNCHANGED <<queue_level, ticks_consumed, enter_time, plock, child, ticks,
                   cproc, pc, scanVars, trapVars>>

ForkKeepsStamp(c, np) ==  \* seeded fault: the slot keeps its old enter_time
    /\ InSyscall(c) /\ plock[np] = NoCpu /\ state[np] = "UNUSED"
    /\ state' = [state EXCEPT ![np] = "USED"]
    /\ queue_level' = [queue_level EXCEPT ![np] = 0]
    /\ ticks_consumed' = [ticks_consumed EXCEPT ![np] = 0]
    /\ child' = [child EXCEPT ![cproc[c]] = np]
    /\ UNCHANGED <<enter_time, plock, ticks, cproc, pc, scanVars, trapVars,
                   waiting>>

\* kfork(): allocproc() initialises the queue fields under np->lock ...
ForkAlloc(c, np) ==
    /\ InSyscall(c) /\ plock[np] = NoCpu /\ state[np] = "UNUSED"
    /\ state' = [state EXCEPT ![np] = "USED"]
    /\ queue_level' = [queue_level EXCEPT ![np] = 0]
    /\ ticks_consumed' = [ticks_consumed EXCEPT ![np] = 0]
    /\ enter_time' = [enter_time EXCEPT ![np] = ticks]
    /\ child' = [child EXCEPT ![cproc[c]] = np]
    /\ UNCHANGED <<plock, ticks, cproc, pc, scanVars, trapVars, waiting>>

\* ... and later, the lock taken again, makes the child RUNNABLE
ForkRun(c) ==
    LET np == child[cproc[c]]
    IN  /\ pc[c] = "run" /\ np # NoProc /\ plock[np] = NoCpu
        /\ state' = [state EXCEPT ![np] = "RUNNABLE"]
        /\ child' = [child EXCEPT ![cproc[c]] = NoProc]
        /\ Moved(np)
        /\ UNCHANGED <<queue_level, ticks_consumed, enter_time, plock, ticks,
                       cproc, pc, scanVars, trapVars>>

\* kwait() frees a zombie
Reap(c, p) ==
    /\ InSyscall(c) /\ plock[p] = NoCpu /\ state[p] = "ZOMBIE"
    /\ state' = [state EXCEPT ![p] = "UNUSED"]
    /\ UNCHANGED <<queue_level, ticks_consumed, enter_time, plock, child, ticks,
                   cproc, pc, scanVars, trapVars, waiting>>

-----------------------------------------------------------------------------
Scheduler(c) == \/ ScanProc(c) \/ NextPass(c) \/ Select(c) \/ Resume(c)
                \/ SwitchBack(c)

Timer(c) == Clock(c) \/ OtherTimer(c)

Trap(c) == \/ BoostProc(c) \/ ClockDone(c)
           \/ TickLoad(c) \/ TickStore(c) \/ LevelTest(c) \/ SliceUsed(c)
           \/ PeekState(c) \/ PeekLevel(c) \/ YieldLock(c) \/ Demote(c)

Syscall(c) == \/ Sleep(c) \/ Exit(c) \/ ForkRun(c)
              \/ \E p \in Procs : \/ Kill(c, p) \/ ForkAlloc(c, p)
                                  \/ Reap(c, p)

Next == \E c \in CPUs : \/ Scheduler(c) \/ Timer(c) \/ Trap(c) \/ Syscall(c)
                        \/ \E p \in Procs : Wakeup(c, p)

Spec == Init /\ [][Next]_vars

\* A hart executes; its timer, though masked while a lock is held, fires again
\* and again.  What a process asks of the kernel is its own affair: no fairness.
Fairness == \A c \in CPUs : WF_vars(Scheduler(c) \/ Trap(c)) /\ SF_vars(Timer(c))

FairSpec == Spec /\ Fairness

-----------------------------------------------------------------------------
(* Properties *)

\* No process is on two harts: one that still executes on its kernel stack,
\* on the way into sched(), is not picked by another hart (the p->lock handed
\* across swtch() is what prevents it).
OneCpu ==
    \A c, d \in CPUs : c # d /\ cproc[c] # NoProc => cproc[c] # cproc[d]

\* A process is RUNNING exactly while a hart has switched to it and it has not
\* begun to leave: nothing else ever makes one RUNNING or takes it away.
RunningIsOnCpu ==
    \A p \in Procs : state[p] = "RUNNING" <=>
        \E c \in CPUs : cproc[c] = p /\ pc[c] \notin {"demote", "sched"}

\* Locks are taken in ascending slot order: a hart that waits for p->lock in
\* its scan holds at most one lock, of a lower slot, and a hart in the boost or
\* in yield() holds none.  No two harts can wait for each other.
LockOrder ==
    /\ \A c \in CPUs, p \in Procs : plock[p] = c =>
        /\ p = best_p[c] \/ pc[c] \in {"resume", "demote", "sched"}
        /\ pc[c] = "scan" => p < idx[c]
        /\ pc[c] \notin {"run", "boost", "clock", "yield"}
    /\ \A c \in CPUs : Cardinality({p \in Procs : plock[p] = c}) <= 1

\* Whatever the boost of another hart overwrites between the unlocked reads of
\* the tick handler, a process never leaves the handler, and is never queued,
\* with its slice used up.
SliceBound ==
    \A p \in Procs :
        \/ ticks_consumed[p] < Slice[queue_level[p]]
        \/ \E c \in CPUs : cproc[c] = p /\
               pc[c] \in {"level", "compare", "yield", "demote"}

\* The process a scan settles on comes before every process that has been
\* waiting, in the same place, since that scan began: it has the highest
\* queue among them and, in that queue, the earliest (enter_time, slot).
ScanPicksBest ==
    \A c \in CPUs : pc[c] = "scan" /\ idx[c] = N + 1 /\ best_p[c] # NoProc =>
        \A p \in waiting[c] \ {best_p[c]} :
            \/ queue_level[best_p[c]] < queue_level[p]
            \/ queue_level[best_p[c]] = queue_level[p] /\ Before(best_p[c], p)

\* A process that is left running at the end of a tick belongs to a queue at
\* least as high as every process that was waiting when the tick began and has
\* waited, unmoved, since: the unlocked search for one to yield to missed none.
PreemptionHonoured ==
    \A c \in CPUs : pc[c] = "run" =>
        \A p \in waiting[c] : queue_level[cproc[c]] <= queue_level[p]

\* Every process that is RUNNABLE eventually gets a hart: what the boost is for.
NoStarvation == \A p \in Procs : state[p] = "RUNNABLE" ~> state[p] # "RUNNABLE"
=============================================================================
