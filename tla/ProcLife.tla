------------------------------ MODULE ProcLife ------------------------------
(***************************************************************************)
(* The life of a process in src/xv6/kernel/proc.c: kfork(), kexit(),       *)
(* kwait(), kkill() and reparent(), with wait_lock, p->lock and the sleep  *)
(* of a waiting parent.                                                    *)
(*                                                                         *)
(* A step is one critical section of one p->lock; wait_lock spans several  *)
(* of them and is explicit.  A process that turns ZOMBIE holds its p->lock *)
(* until it is off its stack, so nobody meets it before that (module Mlfq).*)
(* Memory, files and the current directory are other components; that      *)
(* their allocation fails is a choice.                                     *)
(***************************************************************************)
EXTENDS SleepWakeup

CONSTANTS
    MaxPid,        \* bound: the pids that allocpid() hands out
    KillTargets    \* the pids that kkill() is called with: any but init's,
                   \* whose death is a panic; 0 is what a free slot has.
                   \* Module MCProcLife states the assumptions

VARIABLES
    pid, parent,    \* p->pid and p->parent, 0 for none
    nextpid,
    wait_lock,      \* the process that holds it, or 0
    pc,             \* what each process executes
    pp,             \* the loop variable of its scan of proc[]
    arg,            \* kfork(): np; kkill(): pid
    havekids,
    bornTo          \* history, by pid: the pid of the process that forked it

treeVars  == <<pid, parent, nextpid>>
localVars == <<pp, arg, havekids>>
vars == <<sleepVars, treeVars, wait_lock, pc, localVars, bornTo>>

initproc == 1
Pids == 1..MaxPid
Chan(p) == <<p>>    \* kwait() sleeps on the address of its own struct proc

PCs == {"none", "user", "alloc", "link", "ready", "kill",
        "waitlock", "wait", "waitunlock", "waitsleep", "asleep",
        "exitlock", "reparent", "rewake", "exitwake"}

TypeOK ==
    /\ state \in [Procs -> {"UNUSED", "USED", "SLEEPING", "RUNNABLE", "ZOMBIE"}]
    /\ chan \in [Procs -> {NoChan} \cup {Chan(p) : p \in Procs}]
    /\ killed \in [Procs -> BOOLEAN]
    /\ scan \in [Procs -> 1..(N + 1)]
    /\ pid \in [Procs -> 0..MaxPid]
    /\ \A p \in Procs : pid[p] = 0 <=> state[p] = "UNUSED"
    /\ parent \in [Procs -> 0..N]
    /\ nextpid \in 1..(MaxPid + 1)
    /\ wait_lock \in 0..N
    /\ pc \in [Procs -> PCs]
    /\ pp \in [Procs -> 1..(N + 1)]
    /\ arg \in [Procs -> Nat]
    /\ havekids \in [Procs -> BOOLEAN]
    /\ bornTo \in [Pids -> 0..MaxPid]

\* userinit(): initproc is the only process
Init ==
    /\ state = [p \in Procs |-> IF p = initproc THEN "RUNNABLE" ELSE "UNUSED"]
    /\ chan = [p \in Procs |-> NoChan]
    /\ killed = [p \in Procs |-> FALSE]
    /\ scan = [p \in Procs |-> N + 1]
    /\ pid = [p \in Procs |-> IF p = initproc THEN 1 ELSE 0]
    /\ parent = [p \in Procs |-> 0]
    /\ nextpid = 2
    /\ wait_lock = 0
    /\ pc = [p \in Procs |-> IF p = initproc THEN "user" ELSE "none"]
    /\ pp = [p \in Procs |-> 1]
    /\ arg = [p \in Procs |-> 0]
    /\ havekids = [p \in Procs |-> FALSE]
    /\ bornTo = [i \in Pids |-> 0]

-----------------------------------------------------------------------------
(* Helpers *)

Goto(p, from, to) == pc[p] = from /\ pc' = [pc EXCEPT ![p] = to]

\* usertrap(): a system call starts unless the process has been killed
Syscall(p, to) == Goto(p, "user", to) /\ ~killed[p]

\* back to user space: the locals are gone
Return(p, from) == /\ Goto(p, from, "user")
                   /\ pp' = [pp EXCEPT ![p] = 1]
                   /\ arg' = [arg EXCEPT ![p] = 0]
                   /\ havekids' = [havekids EXCEPT ![p] = FALSE]

acquire(p) == wait_lock = 0 /\ wait_lock' = p
release(p) == wait_lock = p /\ wait_lock' = 0

\* a scan of proc[] goes on, or is over
Advance(p) == pp' = [pp EXCEPT ![p] = @ + 1]
AtEnd(p)   == pp[p] = N + 1

-----------------------------------------------------------------------------
(* kfork() *)

Fork(p) ==
    /\ Syscall(p, "alloc")
    /\ UNCHANGED <<sleepVars, treeVars, wait_lock, localVars, bornTo>>

\* allocproc() looks at its next slot; it leaves p->killed and p->chan alone
AllocSkip(p) ==
    /\ pc[p] = "alloc" /\ pp[p] \in Procs /\ state[pp[p]] # "UNUSED"
    /\ Advance(p)
    /\ UNCHANGED <<sleepVars, treeVars, wait_lock, pc, arg, havekids, bornTo>>

Alloc(p) ==
    /\ Goto(p, "alloc", "link")
    /\ pp[p] \in Procs /\ state[pp[p]] = "UNUSED" /\ nextpid <= MaxPid
    /\ state' = [state EXCEPT ![pp[p]] = "USED"]
    /\ pid' = [pid EXCEPT ![pp[p]] = nextpid]
    /\ nextpid' = nextpid + 1
    /\ arg' = [arg EXCEPT ![p] = pp[p]]
    /\ bornTo' = [bornTo EXCEPT ![nextpid] = pid[p]]
    /\ UNCHANGED <<chan, killed, scan, parent, wait_lock, pp, havekids>>

\* kalloc(), proc_pagetable() or uvmcopy() fails: freeproc() the slot, whose pid
\* is lost.  The bound on pids fails in the same way.
AllocFails(p) ==
    /\ Return(p, "alloc")
    /\ pp[p] \in Procs /\ state[pp[p]] = "UNUSED"
    /\ nextpid' = IF nextpid <= MaxPid THEN nextpid + 1 ELSE nextpid
    /\ chan' = [chan EXCEPT ![pp[p]] = NoChan]
    /\ killed' = [killed EXCEPT ![pp[p]] = FALSE]
    /\ UNCHANGED <<state, scan, pid, parent, wait_lock, bornTo>>

AllocNone(p) ==
    /\ Return(p, "alloc")
    /\ AtEnd(p)
    /\ UNCHANGED <<sleepVars, treeVars, wait_lock, bornTo>>

\* np->parent = p, under wait_lock
Link(p) ==
    /\ Goto(p, "link", "ready")
    /\ wait_lock = 0
    /\ parent' = [parent EXCEPT ![arg[p]] = p]
    /\ UNCHANGED <<sleepVars, pid, nextpid, wait_lock, localVars, bornTo>>

\* np->state = RUNNABLE, and both return to user space
Ready(p) ==
    /\ pc[p] = "ready"
    /\ pc' = [pc EXCEPT ![p] = "user", ![arg[p]] = "user"]
    /\ state' = [state EXCEPT ![arg[p]] = "RUNNABLE"]
    /\ pp' = [pp EXCEPT ![p] = 1]
    /\ arg' = [arg EXCEPT ![p] = 0]
    /\ UNCHANGED <<chan, killed, scan, treeVars, wait_lock, havekids, bornTo>>

kfork(p) == \/ Fork(p) \/ AllocSkip(p) \/ Alloc(p) \/ AllocFails(p)
            \/ AllocNone(p) \/ Link(p) \/ Ready(p)

-----------------------------------------------------------------------------
(* kkill() *)

KillCall(p) ==
    /\ Syscall(p, "kill")
    /\ \E i \in KillTargets : arg' = [arg EXCEPT ![p] = i]
    /\ UNCHANGED <<sleepVars, treeVars, wait_lock, pp, havekids, bornTo>>

KillSkip(p) ==
    /\ pc[p] = "kill" /\ pp[p] \in Procs /\ pid[pp[p]] # arg[p]
    /\ Advance(p)
    /\ UNCHANGED <<sleepVars, treeVars, wait_lock, pc, arg, havekids, bornTo>>

KillHit(p) ==
    /\ Return(p, "kill")
    /\ pp[p] \in Procs /\ pid[pp[p]] = arg[p]
    /\ kkill(pp[p])
    /\ UNCHANGED <<treeVars, wait_lock, bornTo>>

KillMiss(p) ==
    /\ Return(p, "kill")
    /\ AtEnd(p)
    /\ UNCHANGED <<sleepVars, treeVars, wait_lock, bornTo>>

Kill(p) == KillCall(p) \/ KillSkip(p) \/ KillHit(p) \/ KillMiss(p)

-----------------------------------------------------------------------------
(* kwait() *)

WaitCall(p) ==
    /\ Syscall(p, "waitlock")
    /\ UNCHANGED <<sleepVars, treeVars, wait_lock, localVars, bornTo>>

\* acquire(&wait_lock), on entry and after sleep() has returned
WaitLock(p) ==
    /\ \/ Goto(p, "waitlock", "wait")
       \/ Goto(p, "asleep", "wait") /\ state[p] = "RUNNABLE"
    /\ acquire(p)
    /\ pp' = [pp EXCEPT ![p] = 1]
    /\ havekids' = [havekids EXCEPT ![p] = FALSE]
    /\ UNCHANGED <<sleepVars, treeVars, arg, bornTo>>

\* the next slot is no child, or a child that has not exited
WaitSkip(p) ==
    /\ pc[p] = "wait" /\ pp[p] \in Procs
    /\ parent[pp[p]] = p => state[pp[p]] # "ZOMBIE"
    /\ havekids' = [havekids EXCEPT ![p] = @ \/ parent[pp[p]] = p]
    /\ Advance(p)
    /\ UNCHANGED <<sleepVars, treeVars, wait_lock, pc, arg, bornTo>>

\* a child has exited: freeproc() it
ReapAnyChild(p) ==  \* seeded fault: the child's state is not looked at
    /\ Return(p, "wait")
    /\ pp[p] \in Procs /\ parent[pp[p]] = p
    /\ release(p)
    /\ parent' = [parent EXCEPT ![pp[p]] = 0]
    /\ pid' = [pid EXCEPT ![pp[p]] = 0]
    /\ chan' = [chan EXCEPT ![pp[p]] = NoChan]
    /\ killed' = [killed EXCEPT ![pp[p]] = FALSE]
    /\ state' = [state EXCEPT ![pp[p]] = "UNUSED"]
    /\ UNCHANGED <<scan, nextpid, bornTo>>

Reap(p) ==
    /\ Return(p, "wait")
    /\ pp[p] \in Procs /\ parent[pp[p]] = p /\ state[pp[p]] = "ZOMBIE"
    /\ release(p)
    /\ parent' = [parent EXCEPT ![pp[p]] = 0]
    /\ pid' = [pid EXCEPT ![pp[p]] = 0]
    /\ chan' = [chan EXCEPT ![pp[p]] = NoChan]
    /\ killed' = [killed EXCEPT ![pp[p]] = FALSE]
    /\ state' = [state EXCEPT ![pp[p]] = "UNUSED"]
    /\ UNCHANGED <<scan, nextpid, bornTo>>

\* copyout() of the exit status fails: the child stays
ReapFails(p) ==
    /\ Return(p, "wait")
    /\ pp[p] \in Procs /\ parent[pp[p]] = p /\ state[pp[p]] = "ZOMBIE"
    /\ release(p)
    /\ UNCHANGED <<sleepVars, treeVars, bornTo>>

\* no children, or killed: return -1
WaitNone(p) ==
    /\ Return(p, "wait")
    /\ AtEnd(p) /\ (~havekids[p] \/ killed[p])
    /\ release(p)
    /\ UNCHANGED <<sleepVars, treeVars, bornTo>>

WaitPrepare(p) ==
    /\ Goto(p, "wait", "waitunlock")
    /\ AtEnd(p) /\ havekids[p] /\ ~killed[p]
    /\ sleep_prepare(p, Chan(p))
    /\ UNCHANGED <<treeVars, wait_lock, localVars, bornTo>>

WaitUnlock(p) ==
    /\ Goto(p, "waitunlock", "waitsleep")
    /\ release(p)
    /\ UNCHANGED <<sleepVars, treeVars, localVars, bornTo>>

WaitSleep(p) ==
    /\ Goto(p, "waitsleep", "asleep")
    /\ sleep(p)
    /\ UNCHANGED <<treeVars, wait_lock, localVars, bornTo>>

kwait(p) == \/ WaitCall(p) \/ WaitLock(p) \/ WaitSkip(p) \/ Reap(p)
            \/ ReapFails(p) \/ WaitNone(p) \/ WaitPrepare(p)
            \/ WaitUnlock(p) \/ WaitSleep(p)

-----------------------------------------------------------------------------
(* kexit() and reparent() *)

\* exit(), or the return to user space of a process that was killed; init's
\* program never returns
Exit(p) ==
    /\ Goto(p, "user", "exitlock")
    /\ p # initproc
    /\ UNCHANGED <<sleepVars, treeVars, wait_lock, localVars, bornTo>>

ExitLock(p) ==
    /\ Goto(p, "exitlock", "reparent")
    /\ acquire(p)
    /\ pp' = [pp EXCEPT ![p] = 1]
    /\ UNCHANGED <<sleepVars, treeVars, arg, havekids, bornTo>>

ReparentSkip(p) ==
    /\ pc[p] = "reparent" /\ pp[p] \in Procs /\ parent[pp[p]] # p
    /\ Advance(p)
    /\ UNCHANGED <<sleepVars, treeVars, wait_lock, pc, arg, havekids, bornTo>>

\* pp->parent = initproc, and the call of wakeup(initproc)
ReparentSilently(p) ==  \* seeded fault: init is not woken for the child
    /\ pc[p] = "reparent" /\ pp[p] \in Procs /\ parent[pp[p]] = p
    /\ parent' = [parent EXCEPT ![pp[p]] = initproc]
    /\ Advance(p)
    /\ UNCHANGED <<sleepVars, pid, nextpid, wait_lock, pc, arg, havekids, bornTo>>

Reparent(p) ==
    /\ Goto(p, "reparent", "rewake")
    /\ pp[p] \in Procs /\ parent[pp[p]] = p
    /\ parent' = [parent EXCEPT ![pp[p]] = initproc]
    /\ Advance(p)
    /\ WakeupCall(p)
    /\ UNCHANGED <<state, chan, killed, pid, nextpid, wait_lock, arg, havekids, bornTo>>

WakeInit(p) ==
    /\ pc[p] = "rewake"
    /\ wakeup(p, Chan(initproc))
    /\ UNCHANGED <<treeVars, wait_lock, pc, localVars, bornTo>>

WakeInitDone(p) ==
    /\ Goto(p, "rewake", "reparent")
    /\ WakeupDone(p)
    /\ UNCHANGED <<sleepVars, treeVars, wait_lock, localVars, bornTo>>

ReparentDoneEarly(p) ==  \* seeded fault: the last slot is left out
    /\ Goto(p, "reparent", "exitwake")
    /\ pp[p] >= N
    /\ WakeupCall(p)
    /\ UNCHANGED <<state, chan, killed, treeVars, wait_lock, localVars, bornTo>>

\* reparent() has returned: the call of wakeup(p->parent)
ReparentDone(p) ==
    /\ Goto(p, "reparent", "exitwake")
    /\ AtEnd(p)
    /\ WakeupCall(p)
    /\ UNCHANGED <<state, chan, killed, treeVars, wait_lock, localVars, bornTo>>

WakeParent(p) ==
    /\ pc[p] = "exitwake"
    /\ wakeup(p, Chan(parent[p]))
    /\ UNCHANGED <<treeVars, wait_lock, pc, localVars, bornTo>>

Zombie(p) ==
    /\ Goto(p, "exitwake", "none")
    /\ WakeupDone(p)
    /\ release(p)
    /\ state' = [state EXCEPT ![p] = "ZOMBIE"]
    /\ pp' = [pp EXCEPT ![p] = 1]
    /\ UNCHANGED <<chan, killed, scan, treeVars, arg, havekids, bornTo>>

kexit(p) == \/ Exit(p) \/ ExitLock(p) \/ ReparentSkip(p) \/ Reparent(p)
            \/ WakeInit(p) \/ WakeInitDone(p) \/ ReparentDone(p)
            \/ WakeParent(p) \/ Zombie(p)

-----------------------------------------------------------------------------

Step(p) == kfork(p) \/ Kill(p) \/ kwait(p) \/ kexit(p)
Next == \E p \in Procs : Step(p)

Spec == Init /\ [][Next]_vars

-----------------------------------------------------------------------------
(* Properties *)

Alive(p) == state[p] \in {"RUNNABLE", "SLEEPING"}

\* A parent pointer never dangles: it names a live process, and that is the one
\* that forked the child, or init once that one is gone - although struct procs
\* are reused, and the pointer is no pid.
ParentAlive ==
    \A c \in Procs : parent[c] # 0 =>
        /\ Alive(parent[c])
        /\ pid[parent[c]] = bornTo[pid[c]] \/ parent[c] = initproc

\* No exit goes unnoticed: nobody sleeps in kwait() while a child of its is a
\* ZOMBIE, except init on the point of being woken by reparent().
NoLostExit ==
    \A c, p \in Procs : state[c] = "ZOMBIE" /\ parent[c] = p /\ state[p] = "SLEEPING"
        => \E w \in Procs : pc[w] = "rewake" /\ p = initproc /\ scan[w] <= p

\* What kfork(), kexit() and reparent() keep together: every field has a value
\* of its type, and the parent pointers between slots a meaning.
Inv == TypeOK /\ ParentAlive

\* the tree of processes that fork, exit and wait maintain, by pid
StatusOf(i) ==
    IF \E p \in Procs : pid[p] = i
    THEN LET p == CHOOSE q \in Procs : pid[q] = i
         IN  CASE Alive(p) -> "live" [] state[p] = "ZOMBIE" -> "zombie"
               [] OTHER -> "none"
    ELSE IF i < nextpid THEN "gone" ELSE "none"

ParentOf(i) == IF i = 1 \/ StatusOf(i) \notin {"live", "zombie"} THEN 0
               ELSE IF StatusOf(bornTo[i]) = "live" THEN bornTo[i] ELSE 1

T == INSTANCE ProcTree WITH InitPid <- 1,
                            status <- [i \in Pids |-> StatusOf(i)],
                            par <- [i \in Pids |-> ParentOf(i)]

\* fork, exit and wait maintain a tree in which reparenting is instantaneous and
\* each exit is reported once, to the parent.
IsProcTree == T!Spec
=============================================================================
