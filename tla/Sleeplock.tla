----------------------------- MODULE Sleeplock -----------------------------
(***************************************************************************)
(* A sleep lock of src/xv6/kernel/sleeplock.c, used by any number of       *)
(* processes that may be killed while they wait.  The spinlock lk->lk is   *)
(* taken and released in steps of its own, so that wakeups and kills fall  *)
(* between them; what is done under it alone is one step.                  *)
(***************************************************************************)
EXTENDS SleepWakeup

VARIABLES
    lk,       \* the process that holds the spinlock lk->lk, or 0
    locked,   \* lk->locked
    pid,      \* lk->pid: processes stand for their pids, 0 for none
    pc        \* where each process is in acquiresleep() or releasesleep()

lockVars == <<lk, locked, pid>>
vars == <<sleepVars, lockVars, pc>>

TypeOK ==
    /\ state \in [Procs -> {"RUNNABLE", "SLEEPING"}]
    /\ chan \in [Procs -> {NoChan, <<"lk">>}]
    /\ killed \in [Procs -> BOOLEAN]
    /\ scan \in [Procs -> 1..(N + 1)]
    /\ lk \in 0..N
    /\ locked \in BOOLEAN
    /\ pid \in IF locked THEN Procs ELSE {0}
    /\ pc \in [Procs -> {"idle", "test", "unlock", "sleep", "asleep", "hold",
                         "wake"}]

Init ==
    /\ state = [p \in Procs |-> "RUNNABLE"]
    /\ chan = [p \in Procs |-> NoChan]
    /\ killed = [p \in Procs |-> FALSE]
    /\ scan = [p \in Procs |-> N + 1]
    /\ lk = 0
    /\ locked = FALSE
    /\ pid = 0
    /\ pc = [p \in Procs |-> "idle"]

Goto(p, from, to) == pc[p] = from /\ pc' = [pc EXCEPT ![p] = to]

\* acquire(&lk->lk), on entry and after sleep() has returned
acquire(p) ==
    /\ \/ Goto(p, "idle", "test")
       \/ Goto(p, "asleep", "test") /\ state[p] = "RUNNABLE"
    /\ lk = 0 /\ lk' = p
    /\ UNCHANGED <<sleepVars, locked, pid>>

TakeAlways(p) ==  \* seeded fault: if (lk->locked) instead of while
    /\ Goto(p, "test", "hold")
    /\ ~locked \/ chan[p] = NoChan
    /\ locked' = TRUE /\ pid' = p /\ lk' = 0
    /\ UNCHANGED sleepVars

\* the loop condition is false: the lock is taken
Take(p) ==
    /\ Goto(p, "test", "hold")
    /\ ~locked
    /\ locked' = TRUE /\ pid' = p /\ lk' = 0
    /\ UNCHANGED sleepVars

\* the body of the loop: the channel is registered under lk->lk
Prepare(p) ==
    /\ Goto(p, "test", "unlock")
    /\ locked
    /\ sleep_prepare(p, <<"lk">>)
    /\ UNCHANGED lockVars

Unlock(p) ==
    /\ Goto(p, "unlock", "sleep")
    /\ lk' = 0
    /\ UNCHANGED <<sleepVars, locked, pid>>

Sleep(p) == Goto(p, "sleep", "asleep") /\ sleep(p) /\ UNCHANGED lockVars

\* releasesleep(): up to the call of wakeup()
releasesleep(p) ==
    /\ Goto(p, "hold", "wake")
    /\ lk = 0 /\ lk' = p
    /\ locked' = FALSE /\ pid' = 0
    /\ WakeupCall(p)
    /\ UNCHANGED <<state, chan, killed>>

Wake(p) == pc[p] = "wake" /\ wakeup(p, <<"lk">>) /\ UNCHANGED <<lockVars, pc>>

release(p) ==
    /\ Goto(p, "wake", "idle")
    /\ WakeupDone(p)
    /\ lk' = 0
    /\ UNCHANGED <<sleepVars, locked, pid>>

\* any process may be killed at any time; neither loop looks at it
Kill(p) == kkill(p) /\ UNCHANGED <<lockVars, pc>>

acquiresleep(p) == acquire(p) \/ Take(p) \/ Prepare(p) \/ Unlock(p) \/ Sleep(p)
Step(p) == acquiresleep(p) \/ releasesleep(p) \/ Wake(p) \/ release(p)

Next == \E p \in Procs : Step(p) \/ Kill(p)

\* a runnable process is scheduled; that it asks for the lock is not assumed,
\* that it gives the lock back is
Fairness == \A p \in Procs : WF_vars(pc[p] # "idle" /\ Step(p))

Spec == Init /\ [][Next]_vars /\ Fairness

-----------------------------------------------------------------------------
(* Properties *)

\* acquiresleep() returns to at most one process until that one calls
\* releasesleep(), and lk->pid, which holdingsleep() compares, is that one.
Exclusion == \A p \in Procs : pc[p] = "hold" <=> (locked /\ pid = p)

\* No wakeup is lost: while the lock is free, nobody sleeps on it, except the
\* processes that a releasesleep() under way has still to wake.  This is what
\* sleep_prepare() before the release of lk->lk, and sleep()'s look at chan,
\* are for.
NoLostWakeup ==
    ~locked => \A p \in Procs : state[p] = "SLEEPING" =>
        \E w \in Procs : pc[w] = "wake" /\ scan[w] <= p

\* the processes inside acquiresleep()
Waiting == {p \in Procs : pc[p] \in {"test", "unlock", "sleep", "asleep"}}

M == INSTANCE Mutex WITH Clients <- Procs,
                         owner <- {p \in Procs : pc[p] = "hold"},
                         want <- Waiting

\* A sleep lock is a mutex: kills and wakeups between any two steps neither
\* give the lock to a second process nor leave it free while it is wanted.
IsMutex == M!Spec
=============================================================================
