----------------------------- MODULE MlfqProofs -----------------------------
(***************************************************************************)
(* The safety properties of Mlfq hold for every number of processes, harts *)
(* and queues, every slice table and every boost period.                   *)
(*                                                                         *)
(* The inductive invariant has one part per concern, and each part is      *)
(* preserved given the ones before it: who is on which hart (HartInv,      *)
(* LockInv, StateInv, ForkInv, OneCpu), what a tick in progress knows      *)
(* (SliceInv), what a scan in progress knows (WaitInv, ScanInv) and what   *)
(* the search for a process to yield to knows (PreemptInv).                *)
(***************************************************************************)
EXTENDS Mlfq, FiniteSetTheorems, TLAPS

\* The places where a hart is on the kernel stack of a process
ProcPCs == {"resume", "run", "load", "store", "level", "compare", "peek",
            "peeklevel", "yield", "demote", "sched"}

\* The places where it holds the lock of its choice
LockPCs == {"scan", "resume", "demote", "sched"}

-----------------------------------------------------------------------------
(* The inductive invariant *)

\* c->proc, best_p and the place of a hart agree
HartInv ==
    \A c \in CPUs :
        /\ pc[c] \in ProcPCs => cproc[c] # NoProc
        /\ pc[c] = "scan" => cproc[c] = NoProc
        /\ cproc[c] # NoProc => best_p[c] = cproc[c] /\ pass[c] = 0 /\ idx[c] = 1
        /\ pc[c] \in {"boost", "clock"} /\ cproc[c] = NoProc => best_p[c] = NoProc
        /\ pc[c] = "boost" => k[c] \in Procs

\* a hart holds the lock of its choice, and nothing else
LockInv ==
    \A c \in CPUs, p \in Procs :
        plock[p] = c <=> p = best_p[c] /\ pc[c] \in LockPCs

\* the state of the process a hart has chosen or is running
StateInv ==
    /\ \A c \in CPUs :
        /\ pc[c] = "scan" /\ best_p[c] # NoProc => state[best_p[c]] = "RUNNABLE"
        /\ cproc[c] # NoProc /\ pc[c] \notin {"demote", "sched"}
               => state[cproc[c]] = "RUNNING"
        /\ pc[c] = "demote" => state[cproc[c]] = "RUNNABLE"
        /\ pc[c] = "sched" => state[cproc[c]] \in {"RUNNABLE", "SLEEPING", "ZOMBIE"}
    /\ \A p \in Procs : state[p] = "RUNNING" =>
        \E c \in CPUs : cproc[c] = p /\ pc[c] \notin {"demote", "sched"}

\* a child being made is USED, and is made by one process
ForkInv ==
    /\ \A p \in Procs : child[p] # NoProc => state[child[p]] = "USED"
    /\ \A p, q \in Procs : child[p] # NoProc /\ child[p] = child[q] => p = q

OnCpuInv == HartInv /\ LockInv /\ StateInv /\ ForkInv /\ OneCpu

\* p has ticks left in its slice
Within(p) == ticks_consumed[p] < Slice[queue_level[p]]

\* what the reads of queue_level done so far say of it, unless a boost has
\* made them stale: but then it has also given p a new slice
SliceAt(c) ==
    /\ pc[c] = "level" => /\ k[c] < Last
                          /\ k[c] <= queue_level[cproc[c]] \/ Within(cproc[c])
    /\ pc[c] = "compare" => \/ max_ticks[c] = Slice[queue_level[cproc[c]]]
                            \/ Within(cproc[c])

SliceInv == SliceBound /\ \A c \in CPUs : SliceAt(c)

\* what has waited since a scan or tick began is RUNNABLE; a hart that has just
\* selected a process has no scan to account for
WaitInv ==
    \A c \in CPUs :
        /\ \A p \in waiting[c] : state[p] = "RUNNABLE"
        /\ pc[c] = "resume" => \A p \in Procs : p \notin waiting[c]

\* the candidate is of the queue of this pass; what has waited is in this queue
\* or a lower one, and the candidate comes before what the pass has looked at
ScanAt(c) ==
    /\ best_p[c] # NoProc => queue_level[best_p[c]] = pass[c] /\ best_p[c] < idx[c]
    /\ \A p \in waiting[c] \ {best_p[c]} :
        /\ queue_level[p] >= pass[c]
        /\ queue_level[p] = pass[c] /\ p < idx[c]
               => best_p[c] # NoProc /\ Before(best_p[c], p)

ScanInv == \A c \in CPUs : cproc[c] = NoProc => ScanAt(c)

\* what has waited and was looked at is in no higher queue than the process
NoneHigher(c, p) == queue_level[cproc[c]] <= queue_level[p]

PreemptAt(c) ==
    /\ pc[c] = "compare" => k[c] = 1
    /\ pc[c] \in {"peek", "peeklevel"} =>
        /\ k[c] \in Procs
        /\ \A p \in waiting[c] : p < k[c] => NoneHigher(c, p)
    /\ pc[c] = "run" => \A p \in waiting[c] : NoneHigher(c, p)

PreemptInv == \A c \in CPUs : PreemptAt(c)

IInv == TypeOK /\ OnCpuInv /\ SliceInv /\ WaitInv /\ ScanInv /\ PreemptInv

-----------------------------------------------------------------------------
(* Facts about the constants: the intervals stay folded everywhere else *)

LEMMA Firsts ==
    /\ 0 \in Levels /\ Last \in Levels
    /\ 1 \in Procs /\ NoProc \notin Procs /\ 1 \in 1..(N + 1)
    /\ 0 \in CPUs /\ NoCpu \notin CPUs
  BY LastAssumption, NAssumption, NCpuAssumption
     DEF LastAssumption, NAssumption, NCpuAssumption, Levels, Procs, CPUs,
         NoProc, NoCpu

LEMMA LevelFacts ==
    /\ Last \in Nat /\ 0 < Last
    /\ \A l \in Levels : l \in Nat /\ l <= Last /\ (l < Last => l + 1 \in Levels)
    /\ \A l \in Levels : Slice[l] \in Nat /\ 0 < Slice[l]
  BY LastAssumption, SliceAssumption DEF LastAssumption, SliceAssumption, Levels

LEMMA SlotFacts ==
    /\ N \in Nat
    /\ \A i \in 1..(N + 1) : i <= N => i \in Procs /\ i + 1 \in 1..(N + 1)
    /\ \A p \in Procs : p \in Nat /\ p <= N /\ (p < N => p + 1 \in Procs)
  BY NAssumption DEF NAssumption, Procs

-----------------------------------------------------------------------------
(* Every part is preserved *)

\* What a hart is doing agrees with c->proc and best_p.
LEMMA HartStep ==
    ASSUME TypeOK, HartInv, [Next]_vars
    PROVE  HartInv'
<1>1. CASE UNCHANGED vars
  BY <1>1 DEF vars, procVars, scanVars, trapVars, TypeOK, PCs, ProcPCs,
              HartInv
<1>2. ASSUME NEW c \in CPUs,
             \/ Scheduler(c) \/ Timer(c) \/ Trap(c) \/ Syscall(c)
             \/ \E p \in Procs : Wakeup(c, p)
      PROVE  HartInv'
  <2>1. CASE ScanProc(c)
    BY <2>1, Firsts DEF ScanProc, Better, procVars, scanVars, trapVars,
                        TypeOK, PCs, ProcPCs, HartInv
  <2>2. CASE NextPass(c)
    BY <2>2, Firsts DEF NextPass, procVars, scanVars, trapVars, TypeOK, PCs,
                        ProcPCs, HartInv
  <2>3. CASE Select(c)
    BY <2>3, Firsts DEF Select, Goto, procVars, scanVars, trapVars, TypeOK,
                        PCs, ProcPCs, HartInv
  <2>4. CASE Resume(c)
    BY <2>4, Firsts DEF Resume, Goto, procVars, scanVars, trapVars, TypeOK,
                        PCs, ProcPCs, HartInv
  <2>5. CASE SwitchBack(c)
    BY <2>5, Firsts DEF SwitchBack, Goto, procVars, scanVars, trapVars,
                        TypeOK, PCs, ProcPCs, HartInv
  <2>6. CASE Clock(c)
    BY <2>6, Firsts DEF Clock, MayTick, procVars, scanVars, trapVars,
                        TypeOK, PCs, ProcPCs, HartInv
  <2>7. CASE OtherTimer(c)
    BY <2>7, Firsts DEF OtherTimer, Goto, procVars, scanVars, trapVars,
                        TypeOK, PCs, ProcPCs, HartInv
  <2>8. CASE BoostProc(c)
    <3>1. k[c] \in Procs /\ (k[c] < N => k[c] + 1 \in Procs)
      BY <2>8, SlotFacts DEF BoostProc, HartInv
    <3> QED
      BY <2>8, <3>1, Firsts DEF BoostProc, BoostLoop, Moved, procVars, scanVars,
         trapVars, HartInv, TypeOK, PCs, ProcPCs
  <2>9. CASE ClockDone(c)
    BY <2>9, Firsts DEF ClockDone, Goto, AfterTrap, procVars, scanVars,
                        trapVars, TypeOK, PCs, ProcPCs, HartInv
  <2>10. CASE TickLoad(c)
    BY <2>10, Firsts DEF TickLoad, Goto, procVars, scanVars, trapVars,
                         TypeOK, PCs, ProcPCs, HartInv
  <2>11. CASE TickStore(c)
    BY <2>11, Firsts DEF TickStore, Goto, procVars, scanVars, trapVars,
                         TypeOK, PCs, ProcPCs, HartInv
  <2>12. CASE LevelTest(c)
    BY <2>12, Firsts DEF LevelTest, procVars, scanVars, trapVars, TypeOK,
                         PCs, ProcPCs, HartInv
  <2>13. CASE SliceUsed(c)
    BY <2>13, Firsts DEF SliceUsed, Goto, procVars, scanVars, trapVars,
                         TypeOK, PCs, ProcPCs, HartInv
  <2>14. CASE PeekState(c)
    BY <2>14, Firsts DEF PeekState, PeekNext, procVars, scanVars, trapVars,
                         TypeOK, PCs, ProcPCs, HartInv
  <2>15. CASE PeekLevel(c)
    BY <2>15, Firsts DEF PeekLevel, PeekNext, procVars, scanVars, trapVars,
                         TypeOK, PCs, ProcPCs, HartInv
  <2>16. CASE YieldLock(c)
    BY <2>16, Firsts DEF YieldLock, Goto, procVars, scanVars, trapVars,
                         TypeOK, PCs, ProcPCs, HartInv
  <2>17. CASE Demote(c)
    BY <2>17, Firsts DEF Demote, Goto, Moved, procVars, scanVars, trapVars,
                         TypeOK, PCs, ProcPCs, HartInv
  <2>18. CASE Sleep(c)
    BY <2>18, Firsts DEF Sleep, LeaveCpu, InSyscall, procVars, scanVars,
                         trapVars, TypeOK, PCs, ProcPCs, HartInv
  <2>19. CASE Exit(c)
    BY <2>19, Firsts DEF Exit, LeaveCpu, InSyscall, KilledInTick, procVars, scanVars,
                         trapVars, TypeOK, PCs, ProcPCs, HartInv
  <2>20. CASE ForkRun(c)
    BY <2>20, Firsts DEF ForkRun, Moved, procVars, scanVars, trapVars,
                         TypeOK, PCs, ProcPCs, HartInv
  <2>21. ASSUME NEW p \in Procs, Kill(c, p) PROVE HartInv'
    BY <2>21, Firsts DEF Kill, InSyscall, Moved, procVars, scanVars,
                         trapVars, TypeOK, PCs, ProcPCs, HartInv
  <2>22. ASSUME NEW p \in Procs, ForkAlloc(c, p) PROVE HartInv'
    BY <2>22, Firsts DEF ForkAlloc, InSyscall, procVars, scanVars, trapVars,
                         TypeOK, PCs, ProcPCs, HartInv
  <2>23. ASSUME NEW p \in Procs, Reap(c, p) PROVE HartInv'
    BY <2>23, Firsts DEF Reap, InSyscall, procVars, scanVars, trapVars,
                         TypeOK, PCs, ProcPCs, HartInv
  <2>24. ASSUME NEW p \in Procs, Wakeup(c, p) PROVE HartInv'
    BY <2>24, Firsts DEF Wakeup, InterruptsOn, Moved, procVars, scanVars,
                         trapVars, TypeOK, PCs, ProcPCs, HartInv
  <2> QED
    BY <1>2, <2>1, <2>2, <2>3, <2>4, <2>5, <2>6, <2>7, <2>8, <2>9, <2>10,
             <2>11, <2>12, <2>13, <2>14, <2>15, <2>16, <2>17, <2>18, <2>19,
             <2>20, <2>21, <2>22, <2>23, <2>24
       DEF Scheduler, Timer, Trap, Syscall
<1> QED
  BY <1>1, <1>2 DEF Next

\* A hart holds the lock of its choice only.
LEMMA LockStep ==
    ASSUME TypeOK, HartInv, LockInv, [Next]_vars
    PROVE  LockInv'
<1>1. CASE UNCHANGED vars
  BY <1>1 DEF vars, procVars, scanVars, trapVars, TypeOK, PCs, ProcPCs,
              LockPCs, HartInv, LockInv
<1>2. ASSUME NEW c \in CPUs,
             \/ Scheduler(c) \/ Timer(c) \/ Trap(c) \/ Syscall(c)
             \/ \E p \in Procs : Wakeup(c, p)
      PROVE  LockInv'
  <2>1. CASE ScanProc(c)
    BY <2>1, Firsts DEF ScanProc, Better, procVars, scanVars, trapVars,
                        TypeOK, PCs, ProcPCs, LockPCs, HartInv, LockInv
  <2>2. CASE NextPass(c)
    BY <2>2, Firsts DEF NextPass, procVars, scanVars, trapVars, TypeOK, PCs,
                        ProcPCs, LockPCs, HartInv, LockInv
  <2>3. CASE Select(c)
    BY <2>3, Firsts DEF Select, Goto, procVars, scanVars, trapVars, TypeOK,
                        PCs, ProcPCs, LockPCs, HartInv, LockInv
  <2>4. CASE Resume(c)
    BY <2>4, Firsts DEF Resume, Goto, procVars, scanVars, trapVars, TypeOK,
                        PCs, ProcPCs, LockPCs, HartInv, LockInv
  <2>5. CASE SwitchBack(c)
    BY <2>5, Firsts DEF SwitchBack, Goto, procVars, scanVars, trapVars,
                        TypeOK, PCs, ProcPCs, LockPCs, HartInv, LockInv
  <2>6. CASE Clock(c)
    BY <2>6, Firsts DEF Clock, MayTick, procVars, scanVars, trapVars,
                        TypeOK, PCs, ProcPCs, LockPCs, HartInv, LockInv
  <2>7. CASE OtherTimer(c)
    BY <2>7, Firsts DEF OtherTimer, Goto, procVars, scanVars, trapVars,
                        TypeOK, PCs, ProcPCs, LockPCs, HartInv, LockInv
  <2>8. CASE BoostProc(c)
    BY <2>8, Firsts DEF BoostProc, BoostLoop, Moved, procVars, scanVars,
                        trapVars, TypeOK, PCs, ProcPCs, LockPCs, HartInv,
                        LockInv
  <2>9. CASE ClockDone(c)
    BY <2>9, Firsts DEF ClockDone, Goto, AfterTrap, procVars, scanVars,
                        trapVars, TypeOK, PCs, ProcPCs, LockPCs, HartInv,
                        LockInv
  <2>10. CASE TickLoad(c)
    BY <2>10, Firsts DEF TickLoad, Goto, procVars, scanVars, trapVars,
                         TypeOK, PCs, ProcPCs, LockPCs, HartInv, LockInv
  <2>11. CASE TickStore(c)
    BY <2>11, Firsts DEF TickStore, Goto, procVars, scanVars, trapVars,
                         TypeOK, PCs, ProcPCs, LockPCs, HartInv, LockInv
  <2>12. CASE LevelTest(c)
    BY <2>12, Firsts DEF LevelTest, procVars, scanVars, trapVars, TypeOK,
                         PCs, ProcPCs, LockPCs, HartInv, LockInv
  <2>13. CASE SliceUsed(c)
    BY <2>13, Firsts DEF SliceUsed, Goto, procVars, scanVars, trapVars,
                         TypeOK, PCs, ProcPCs, LockPCs, HartInv, LockInv
  <2>14. CASE PeekState(c)
    BY <2>14, Firsts DEF PeekState, PeekNext, procVars, scanVars, trapVars,
                         TypeOK, PCs, ProcPCs, LockPCs, HartInv, LockInv
  <2>15. CASE PeekLevel(c)
    BY <2>15, Firsts DEF PeekLevel, PeekNext, procVars, scanVars, trapVars,
                         TypeOK, PCs, ProcPCs, LockPCs, HartInv, LockInv
  <2>16. CASE YieldLock(c)
    BY <2>16, Firsts DEF YieldLock, Goto, procVars, scanVars, trapVars,
                         TypeOK, PCs, ProcPCs, LockPCs, HartInv, LockInv
  <2>17. CASE Demote(c)
    BY <2>17, Firsts DEF Demote, Goto, Moved, procVars, scanVars, trapVars,
                         TypeOK, PCs, ProcPCs, LockPCs, HartInv, LockInv
  <2>18. CASE Sleep(c)
    BY <2>18, Firsts DEF Sleep, LeaveCpu, InSyscall, procVars, scanVars,
                         trapVars, TypeOK, PCs, ProcPCs, LockPCs, HartInv,
                         LockInv
  <2>19. CASE Exit(c)
    BY <2>19, Firsts DEF Exit, LeaveCpu, InSyscall, KilledInTick, procVars, scanVars,
                         trapVars, TypeOK, PCs, ProcPCs, LockPCs, HartInv,
                         LockInv
  <2>20. CASE ForkRun(c)
    BY <2>20, Firsts DEF ForkRun, Moved, procVars, scanVars, trapVars,
                         TypeOK, PCs, ProcPCs, LockPCs, HartInv, LockInv
  <2>21. ASSUME NEW p \in Procs, Kill(c, p) PROVE LockInv'
    BY <2>21, Firsts DEF Kill, InSyscall, Moved, procVars, scanVars,
                         trapVars, TypeOK, PCs, ProcPCs, LockPCs, HartInv,
                         LockInv
  <2>22. ASSUME NEW p \in Procs, ForkAlloc(c, p) PROVE LockInv'
    BY <2>22, Firsts DEF ForkAlloc, InSyscall, procVars, scanVars, trapVars,
                         TypeOK, PCs, ProcPCs, LockPCs, HartInv, LockInv
  <2>23. ASSUME NEW p \in Procs, Reap(c, p) PROVE LockInv'
    BY <2>23, Firsts DEF Reap, InSyscall, procVars, scanVars, trapVars,
                         TypeOK, PCs, ProcPCs, LockPCs, HartInv, LockInv
  <2>24. ASSUME NEW p \in Procs, Wakeup(c, p) PROVE LockInv'
    BY <2>24, Firsts DEF Wakeup, InterruptsOn, Moved, procVars, scanVars,
                         trapVars, TypeOK, PCs, ProcPCs, LockPCs, HartInv,
                         LockInv
  <2> QED
    BY <1>2, <2>1, <2>2, <2>3, <2>4, <2>5, <2>6, <2>7, <2>8, <2>9, <2>10,
             <2>11, <2>12, <2>13, <2>14, <2>15, <2>16, <2>17, <2>18, <2>19,
             <2>20, <2>21, <2>22, <2>23, <2>24
       DEF Scheduler, Timer, Trap, Syscall
<1> QED
  BY <1>1, <1>2 DEF Next

\* A process is RUNNING exactly while a hart runs it.
LEMMA StateStep ==
    ASSUME TypeOK, OnCpuInv, [Next]_vars
    PROVE  StateInv'
<1>1. CASE UNCHANGED vars
  BY <1>1 DEF vars, procVars, scanVars, trapVars, TypeOK, PCs, ProcPCs,
              LockPCs, OnCpuInv, HartInv, LockInv, StateInv, ForkInv, OneCpu
<1>2. ASSUME NEW c \in CPUs,
             \/ Scheduler(c) \/ Timer(c) \/ Trap(c) \/ Syscall(c)
             \/ \E p \in Procs : Wakeup(c, p)
      PROVE  StateInv'
  <2>1. CASE ScanProc(c)
    <3>1. idx[c] \in Procs
      BY <2>1, SlotFacts DEF ScanProc, TypeOK
    <3> QED
      BY <2>1, <3>1, Firsts DEF ScanProc, Better, procVars, TypeOK, PCs, ProcPCs,
         OnCpuInv, HartInv, StateInv
  <2>2. CASE NextPass(c)
    BY <2>2, Firsts DEF NextPass, procVars, scanVars, trapVars, TypeOK, PCs,
                        ProcPCs, LockPCs, OnCpuInv, HartInv, LockInv,
                        StateInv, ForkInv, OneCpu
  <2>3. CASE Select(c)
    BY <2>3, Firsts DEF Select, Goto, procVars, scanVars, trapVars, TypeOK,
                        PCs, ProcPCs, LockPCs, OnCpuInv, HartInv, LockInv,
                        StateInv, ForkInv, OneCpu
  <2>4. CASE Resume(c)
    BY <2>4, Firsts DEF Resume, Goto, procVars, scanVars, trapVars, TypeOK,
                        PCs, ProcPCs, LockPCs, OnCpuInv, HartInv, LockInv,
                        StateInv, ForkInv, OneCpu
  <2>5. CASE SwitchBack(c)
    BY <2>5, Firsts DEF SwitchBack, Goto, procVars, scanVars, trapVars,
                        TypeOK, PCs, ProcPCs, LockPCs, OnCpuInv, HartInv,
                        LockInv, StateInv, ForkInv, OneCpu
  <2>6. CASE Clock(c)
    BY <2>6, Firsts DEF Clock, MayTick, procVars, scanVars, trapVars,
                        TypeOK, PCs, ProcPCs, LockPCs, OnCpuInv, HartInv,
                        LockInv, StateInv, ForkInv, OneCpu
  <2>7. CASE OtherTimer(c)
    BY <2>7, Firsts DEF OtherTimer, Goto, procVars, scanVars, trapVars,
                        TypeOK, PCs, ProcPCs, LockPCs, OnCpuInv, HartInv,
                        LockInv, StateInv, ForkInv, OneCpu
  <2>8. CASE BoostProc(c)
    BY <2>8, Firsts DEF BoostProc, BoostLoop, Moved, procVars, scanVars,
                        trapVars, TypeOK, PCs, ProcPCs, LockPCs, OnCpuInv,
                        HartInv, LockInv, StateInv, ForkInv, OneCpu
  <2>9. CASE ClockDone(c)
    BY <2>9, Firsts DEF ClockDone, Goto, AfterTrap, procVars, scanVars,
                        trapVars, TypeOK, PCs, ProcPCs, LockPCs, OnCpuInv,
                        HartInv, LockInv, StateInv, ForkInv, OneCpu
  <2>10. CASE TickLoad(c)
    BY <2>10, Firsts DEF TickLoad, Goto, procVars, scanVars, trapVars,
                         TypeOK, PCs, ProcPCs, LockPCs, OnCpuInv, HartInv,
                         LockInv, StateInv, ForkInv, OneCpu
  <2>11. CASE TickStore(c)
    BY <2>11, Firsts DEF TickStore, Goto, procVars, scanVars, trapVars,
                         TypeOK, PCs, ProcPCs, LockPCs, OnCpuInv, HartInv,
                         LockInv, StateInv, ForkInv, OneCpu
  <2>12. CASE LevelTest(c)
    BY <2>12, Firsts DEF LevelTest, procVars, scanVars, trapVars, TypeOK,
                         PCs, ProcPCs, LockPCs, OnCpuInv, HartInv, LockInv,
                         StateInv, ForkInv, OneCpu
  <2>13. CASE SliceUsed(c)
    BY <2>13, Firsts DEF SliceUsed, Goto, procVars, scanVars, trapVars,
                         TypeOK, PCs, ProcPCs, LockPCs, OnCpuInv, HartInv,
                         LockInv, StateInv, ForkInv, OneCpu
  <2>14. CASE PeekState(c)
    BY <2>14, Firsts DEF PeekState, PeekNext, procVars, scanVars, trapVars,
                         TypeOK, PCs, ProcPCs, LockPCs, OnCpuInv, HartInv,
                         LockInv, StateInv, ForkInv, OneCpu
  <2>15. CASE PeekLevel(c)
    BY <2>15, Firsts DEF PeekLevel, PeekNext, procVars, scanVars, trapVars,
                         TypeOK, PCs, ProcPCs, LockPCs, OnCpuInv, HartInv,
                         LockInv, StateInv, ForkInv, OneCpu
  <2>16. CASE YieldLock(c)
    BY <2>16, Firsts DEF YieldLock, Goto, procVars, scanVars, trapVars,
                         TypeOK, PCs, ProcPCs, LockPCs, OnCpuInv, HartInv,
                         LockInv, StateInv, ForkInv, OneCpu
  <2>17. CASE Demote(c)
    BY <2>17, Firsts DEF Demote, Goto, Moved, procVars, scanVars, trapVars,
                         TypeOK, PCs, ProcPCs, LockPCs, OnCpuInv, HartInv,
                         LockInv, StateInv, ForkInv, OneCpu
  <2>18. CASE Sleep(c)
    BY <2>18, Firsts DEF Sleep, LeaveCpu, InSyscall, procVars, scanVars,
                         trapVars, TypeOK, PCs, ProcPCs, LockPCs, OnCpuInv,
                         HartInv, LockInv, StateInv, ForkInv, OneCpu
  <2>19. CASE Exit(c)
    BY <2>19, Firsts DEF Exit, LeaveCpu, InSyscall, KilledInTick, procVars, scanVars,
                         trapVars, TypeOK, PCs, ProcPCs, LockPCs, OnCpuInv,
                         HartInv, LockInv, StateInv, ForkInv, OneCpu
  <2>20. CASE ForkRun(c)
    BY <2>20, Firsts DEF ForkRun, Moved, procVars, scanVars, trapVars,
                         TypeOK, PCs, ProcPCs, LockPCs, OnCpuInv, HartInv,
                         LockInv, StateInv, ForkInv, OneCpu
  <2>21. ASSUME NEW p \in Procs, Kill(c, p) PROVE StateInv'
    BY <2>21, Firsts DEF Kill, InSyscall, Moved, procVars, scanVars,
                         trapVars, TypeOK, PCs, ProcPCs, LockPCs, OnCpuInv,
                         HartInv, LockInv, StateInv, ForkInv, OneCpu
  <2>22. ASSUME NEW p \in Procs, ForkAlloc(c, p) PROVE StateInv'
    BY <2>22, Firsts DEF ForkAlloc, InSyscall, procVars, scanVars, trapVars,
                         TypeOK, PCs, ProcPCs, LockPCs, OnCpuInv, HartInv,
                         LockInv, StateInv, ForkInv, OneCpu
  <2>23. ASSUME NEW p \in Procs, Reap(c, p) PROVE StateInv'
    BY <2>23, Firsts DEF Reap, InSyscall, procVars, scanVars, trapVars,
                         TypeOK, PCs, ProcPCs, LockPCs, OnCpuInv, HartInv,
                         LockInv, StateInv, ForkInv, OneCpu
  <2>24. ASSUME NEW p \in Procs, Wakeup(c, p) PROVE StateInv'
    BY <2>24, Firsts DEF Wakeup, InterruptsOn, Moved, procVars, scanVars,
                         trapVars, TypeOK, PCs, ProcPCs, LockPCs, OnCpuInv,
                         HartInv, LockInv, StateInv, ForkInv, OneCpu
  <2> QED
    BY <1>2, <2>1, <2>2, <2>3, <2>4, <2>5, <2>6, <2>7, <2>8, <2>9, <2>10,
             <2>11, <2>12, <2>13, <2>14, <2>15, <2>16, <2>17, <2>18, <2>19,
             <2>20, <2>21, <2>22, <2>23, <2>24
       DEF Scheduler, Timer, Trap, Syscall
<1> QED
  BY <1>1, <1>2 DEF Next

\* A slot being forked into belongs to one kfork.
LEMMA ForkStep ==
    ASSUME TypeOK, OnCpuInv, [Next]_vars
    PROVE  ForkInv'
<1>1. CASE UNCHANGED vars
  BY <1>1 DEF vars, procVars, scanVars, trapVars, TypeOK, PCs, ProcPCs,
              LockPCs, OnCpuInv, HartInv, LockInv, StateInv, ForkInv, OneCpu
<1>2. ASSUME NEW c \in CPUs,
             \/ Scheduler(c) \/ Timer(c) \/ Trap(c) \/ Syscall(c)
             \/ \E p \in Procs : Wakeup(c, p)
      PROVE  ForkInv'
  <2>1. CASE ScanProc(c)
    BY <2>1, Firsts DEF ScanProc, Better, procVars, scanVars, trapVars,
                        TypeOK, PCs, ProcPCs, LockPCs, OnCpuInv, HartInv,
                        LockInv, StateInv, ForkInv, OneCpu
  <2>2. CASE NextPass(c)
    BY <2>2, Firsts DEF NextPass, procVars, scanVars, trapVars, TypeOK, PCs,
                        ProcPCs, LockPCs, OnCpuInv, HartInv, LockInv,
                        StateInv, ForkInv, OneCpu
  <2>3. CASE Select(c)
    BY <2>3, Firsts DEF Select, Goto, procVars, scanVars, trapVars, TypeOK,
                        PCs, ProcPCs, LockPCs, OnCpuInv, HartInv, LockInv,
                        StateInv, ForkInv, OneCpu
  <2>4. CASE Resume(c)
    BY <2>4, Firsts DEF Resume, Goto, procVars, scanVars, trapVars, TypeOK,
                        PCs, ProcPCs, LockPCs, OnCpuInv, HartInv, LockInv,
                        StateInv, ForkInv, OneCpu
  <2>5. CASE SwitchBack(c)
    BY <2>5, Firsts DEF SwitchBack, Goto, procVars, scanVars, trapVars,
                        TypeOK, PCs, ProcPCs, LockPCs, OnCpuInv, HartInv,
                        LockInv, StateInv, ForkInv, OneCpu
  <2>6. CASE Clock(c)
    BY <2>6, Firsts DEF Clock, MayTick, procVars, scanVars, trapVars,
                        TypeOK, PCs, ProcPCs, LockPCs, OnCpuInv, HartInv,
                        LockInv, StateInv, ForkInv, OneCpu
  <2>7. CASE OtherTimer(c)
    BY <2>7, Firsts DEF OtherTimer, Goto, procVars, scanVars, trapVars,
                        TypeOK, PCs, ProcPCs, LockPCs, OnCpuInv, HartInv,
                        LockInv, StateInv, ForkInv, OneCpu
  <2>8. CASE BoostProc(c)
    BY <2>8, Firsts DEF BoostProc, BoostLoop, Moved, procVars, scanVars,
                        trapVars, TypeOK, PCs, ProcPCs, LockPCs, OnCpuInv,
                        HartInv, LockInv, StateInv, ForkInv, OneCpu
  <2>9. CASE ClockDone(c)
    BY <2>9, Firsts DEF ClockDone, Goto, AfterTrap, procVars, scanVars,
                        trapVars, TypeOK, PCs, ProcPCs, LockPCs, OnCpuInv,
                        HartInv, LockInv, StateInv, ForkInv, OneCpu
  <2>10. CASE TickLoad(c)
    BY <2>10, Firsts DEF TickLoad, Goto, procVars, scanVars, trapVars,
                         TypeOK, PCs, ProcPCs, LockPCs, OnCpuInv, HartInv,
                         LockInv, StateInv, ForkInv, OneCpu
  <2>11. CASE TickStore(c)
    BY <2>11, Firsts DEF TickStore, Goto, procVars, scanVars, trapVars,
                         TypeOK, PCs, ProcPCs, LockPCs, OnCpuInv, HartInv,
                         LockInv, StateInv, ForkInv, OneCpu
  <2>12. CASE LevelTest(c)
    BY <2>12, Firsts DEF LevelTest, procVars, scanVars, trapVars, TypeOK,
                         PCs, ProcPCs, LockPCs, OnCpuInv, HartInv, LockInv,
                         StateInv, ForkInv, OneCpu
  <2>13. CASE SliceUsed(c)
    BY <2>13, Firsts DEF SliceUsed, Goto, procVars, scanVars, trapVars,
                         TypeOK, PCs, ProcPCs, LockPCs, OnCpuInv, HartInv,
                         LockInv, StateInv, ForkInv, OneCpu
  <2>14. CASE PeekState(c)
    BY <2>14, Firsts DEF PeekState, PeekNext, procVars, scanVars, trapVars,
                         TypeOK, PCs, ProcPCs, LockPCs, OnCpuInv, HartInv,
                         LockInv, StateInv, ForkInv, OneCpu
  <2>15. CASE PeekLevel(c)
    BY <2>15, Firsts DEF PeekLevel, PeekNext, procVars, scanVars, trapVars,
                         TypeOK, PCs, ProcPCs, LockPCs, OnCpuInv, HartInv,
                         LockInv, StateInv, ForkInv, OneCpu
  <2>16. CASE YieldLock(c)
    BY <2>16, Firsts DEF YieldLock, Goto, procVars, scanVars, trapVars,
                         TypeOK, PCs, ProcPCs, LockPCs, OnCpuInv, HartInv,
                         LockInv, StateInv, ForkInv, OneCpu
  <2>17. CASE Demote(c)
    BY <2>17, Firsts DEF Demote, Goto, Moved, procVars, scanVars, trapVars,
                         TypeOK, PCs, ProcPCs, LockPCs, OnCpuInv, HartInv,
                         LockInv, StateInv, ForkInv, OneCpu
  <2>18. CASE Sleep(c)
    BY <2>18, Firsts DEF Sleep, LeaveCpu, InSyscall, procVars, scanVars,
                         trapVars, TypeOK, PCs, ProcPCs, LockPCs, OnCpuInv,
                         HartInv, LockInv, StateInv, ForkInv, OneCpu
  <2>19. CASE Exit(c)
    BY <2>19, Firsts DEF Exit, LeaveCpu, InSyscall, KilledInTick, procVars, scanVars,
                         trapVars, TypeOK, PCs, ProcPCs, LockPCs, OnCpuInv,
                         HartInv, LockInv, StateInv, ForkInv, OneCpu
  <2>20. CASE ForkRun(c)
    BY <2>20, Firsts DEF ForkRun, Moved, procVars, scanVars, trapVars,
                         TypeOK, PCs, ProcPCs, LockPCs, OnCpuInv, HartInv,
                         LockInv, StateInv, ForkInv, OneCpu
  <2>21. ASSUME NEW p \in Procs, Kill(c, p) PROVE ForkInv'
    BY <2>21, Firsts DEF Kill, InSyscall, Moved, procVars, scanVars,
                         trapVars, TypeOK, PCs, ProcPCs, LockPCs, OnCpuInv,
                         HartInv, LockInv, StateInv, ForkInv, OneCpu
  <2>22. ASSUME NEW p \in Procs, ForkAlloc(c, p) PROVE ForkInv'
    BY <2>22, Firsts DEF ForkAlloc, InSyscall, procVars, scanVars, trapVars,
                         TypeOK, PCs, ProcPCs, LockPCs, OnCpuInv, HartInv,
                         LockInv, StateInv, ForkInv, OneCpu
  <2>23. ASSUME NEW p \in Procs, Reap(c, p) PROVE ForkInv'
    BY <2>23, Firsts DEF Reap, InSyscall, procVars, scanVars, trapVars,
                         TypeOK, PCs, ProcPCs, LockPCs, OnCpuInv, HartInv,
                         LockInv, StateInv, ForkInv, OneCpu
  <2>24. ASSUME NEW p \in Procs, Wakeup(c, p) PROVE ForkInv'
    BY <2>24, Firsts DEF Wakeup, InterruptsOn, Moved, procVars, scanVars,
                         trapVars, TypeOK, PCs, ProcPCs, LockPCs, OnCpuInv,
                         HartInv, LockInv, StateInv, ForkInv, OneCpu
  <2> QED
    BY <1>2, <2>1, <2>2, <2>3, <2>4, <2>5, <2>6, <2>7, <2>8, <2>9, <2>10,
             <2>11, <2>12, <2>13, <2>14, <2>15, <2>16, <2>17, <2>18, <2>19,
             <2>20, <2>21, <2>22, <2>23, <2>24
       DEF Scheduler, Timer, Trap, Syscall
<1> QED
  BY <1>1, <1>2 DEF Next

\* No step puts a process on a second hart: Select's is locked by Select's hart.
LEMMA OneCpuStep ==
    ASSUME TypeOK, OnCpuInv, [Next]_vars
    PROVE  OneCpu'
<1>1. CASE UNCHANGED vars
  BY <1>1 DEF vars, procVars, scanVars, trapVars, TypeOK, PCs, ProcPCs,
              LockPCs, OnCpuInv, HartInv, LockInv, StateInv, ForkInv, OneCpu
<1>2. ASSUME NEW c \in CPUs,
             \/ Scheduler(c) \/ Timer(c) \/ Trap(c) \/ Syscall(c)
             \/ \E p \in Procs : Wakeup(c, p)
      PROVE  OneCpu'
  <2>1. CASE ScanProc(c)
    BY <2>1, Firsts DEF ScanProc, Better, procVars, scanVars, trapVars,
                        TypeOK, PCs, ProcPCs, LockPCs, OnCpuInv, HartInv,
                        LockInv, StateInv, ForkInv, OneCpu
  <2>2. CASE NextPass(c)
    BY <2>2, Firsts DEF NextPass, procVars, scanVars, trapVars, TypeOK, PCs,
                        ProcPCs, LockPCs, OnCpuInv, HartInv, LockInv,
                        StateInv, ForkInv, OneCpu
  <2>3. CASE Select(c)
    BY <2>3, Firsts DEF Select, Goto, procVars, scanVars, trapVars, TypeOK,
                        PCs, ProcPCs, LockPCs, OnCpuInv, HartInv, LockInv,
                        StateInv, ForkInv, OneCpu
  <2>4. CASE Resume(c)
    BY <2>4, Firsts DEF Resume, Goto, procVars, scanVars, trapVars, TypeOK,
                        PCs, ProcPCs, LockPCs, OnCpuInv, HartInv, LockInv,
                        StateInv, ForkInv, OneCpu
  <2>5. CASE SwitchBack(c)
    BY <2>5, Firsts DEF SwitchBack, Goto, procVars, scanVars, trapVars,
                        TypeOK, PCs, ProcPCs, LockPCs, OnCpuInv, HartInv,
                        LockInv, StateInv, ForkInv, OneCpu
  <2>6. CASE Clock(c)
    BY <2>6, Firsts DEF Clock, MayTick, procVars, scanVars, trapVars,
                        TypeOK, PCs, ProcPCs, LockPCs, OnCpuInv, HartInv,
                        LockInv, StateInv, ForkInv, OneCpu
  <2>7. CASE OtherTimer(c)
    BY <2>7, Firsts DEF OtherTimer, Goto, procVars, scanVars, trapVars,
                        TypeOK, PCs, ProcPCs, LockPCs, OnCpuInv, HartInv,
                        LockInv, StateInv, ForkInv, OneCpu
  <2>8. CASE BoostProc(c)
    BY <2>8, Firsts DEF BoostProc, BoostLoop, Moved, procVars, scanVars,
                        trapVars, TypeOK, PCs, ProcPCs, LockPCs, OnCpuInv,
                        HartInv, LockInv, StateInv, ForkInv, OneCpu
  <2>9. CASE ClockDone(c)
    BY <2>9, Firsts DEF ClockDone, Goto, AfterTrap, procVars, scanVars,
                        trapVars, TypeOK, PCs, ProcPCs, LockPCs, OnCpuInv,
                        HartInv, LockInv, StateInv, ForkInv, OneCpu
  <2>10. CASE TickLoad(c)
    BY <2>10, Firsts DEF TickLoad, Goto, procVars, scanVars, trapVars,
                         TypeOK, PCs, ProcPCs, LockPCs, OnCpuInv, HartInv,
                         LockInv, StateInv, ForkInv, OneCpu
  <2>11. CASE TickStore(c)
    BY <2>11, Firsts DEF TickStore, Goto, procVars, scanVars, trapVars,
                         TypeOK, PCs, ProcPCs, LockPCs, OnCpuInv, HartInv,
                         LockInv, StateInv, ForkInv, OneCpu
  <2>12. CASE LevelTest(c)
    BY <2>12, Firsts DEF LevelTest, procVars, scanVars, trapVars, TypeOK,
                         PCs, ProcPCs, LockPCs, OnCpuInv, HartInv, LockInv,
                         StateInv, ForkInv, OneCpu
  <2>13. CASE SliceUsed(c)
    BY <2>13, Firsts DEF SliceUsed, Goto, procVars, scanVars, trapVars,
                         TypeOK, PCs, ProcPCs, LockPCs, OnCpuInv, HartInv,
                         LockInv, StateInv, ForkInv, OneCpu
  <2>14. CASE PeekState(c)
    BY <2>14, Firsts DEF PeekState, PeekNext, procVars, scanVars, trapVars,
                         TypeOK, PCs, ProcPCs, LockPCs, OnCpuInv, HartInv,
                         LockInv, StateInv, ForkInv, OneCpu
  <2>15. CASE PeekLevel(c)
    BY <2>15, Firsts DEF PeekLevel, PeekNext, procVars, scanVars, trapVars,
                         TypeOK, PCs, ProcPCs, LockPCs, OnCpuInv, HartInv,
                         LockInv, StateInv, ForkInv, OneCpu
  <2>16. CASE YieldLock(c)
    BY <2>16, Firsts DEF YieldLock, Goto, procVars, scanVars, trapVars,
                         TypeOK, PCs, ProcPCs, LockPCs, OnCpuInv, HartInv,
                         LockInv, StateInv, ForkInv, OneCpu
  <2>17. CASE Demote(c)
    BY <2>17, Firsts DEF Demote, Goto, Moved, procVars, scanVars, trapVars,
                         TypeOK, PCs, ProcPCs, LockPCs, OnCpuInv, HartInv,
                         LockInv, StateInv, ForkInv, OneCpu
  <2>18. CASE Sleep(c)
    BY <2>18, Firsts DEF Sleep, LeaveCpu, InSyscall, procVars, scanVars,
                         trapVars, TypeOK, PCs, ProcPCs, LockPCs, OnCpuInv,
                         HartInv, LockInv, StateInv, ForkInv, OneCpu
  <2>19. CASE Exit(c)
    BY <2>19, Firsts DEF Exit, LeaveCpu, InSyscall, KilledInTick, procVars, scanVars,
                         trapVars, TypeOK, PCs, ProcPCs, LockPCs, OnCpuInv,
                         HartInv, LockInv, StateInv, ForkInv, OneCpu
  <2>20. CASE ForkRun(c)
    BY <2>20, Firsts DEF ForkRun, Moved, procVars, scanVars, trapVars,
                         TypeOK, PCs, ProcPCs, LockPCs, OnCpuInv, HartInv,
                         LockInv, StateInv, ForkInv, OneCpu
  <2>21. ASSUME NEW p \in Procs, Kill(c, p) PROVE OneCpu'
    BY <2>21, Firsts DEF Kill, InSyscall, Moved, procVars, scanVars,
                         trapVars, TypeOK, PCs, ProcPCs, LockPCs, OnCpuInv,
                         HartInv, LockInv, StateInv, ForkInv, OneCpu
  <2>22. ASSUME NEW p \in Procs, ForkAlloc(c, p) PROVE OneCpu'
    BY <2>22, Firsts DEF ForkAlloc, InSyscall, procVars, scanVars, trapVars,
                         TypeOK, PCs, ProcPCs, LockPCs, OnCpuInv, HartInv,
                         LockInv, StateInv, ForkInv, OneCpu
  <2>23. ASSUME NEW p \in Procs, Reap(c, p) PROVE OneCpu'
    BY <2>23, Firsts DEF Reap, InSyscall, procVars, scanVars, trapVars,
                         TypeOK, PCs, ProcPCs, LockPCs, OnCpuInv, HartInv,
                         LockInv, StateInv, ForkInv, OneCpu
  <2>24. ASSUME NEW p \in Procs, Wakeup(c, p) PROVE OneCpu'
    BY <2>24, Firsts DEF Wakeup, InterruptsOn, Moved, procVars, scanVars,
                         trapVars, TypeOK, PCs, ProcPCs, LockPCs, OnCpuInv,
                         HartInv, LockInv, StateInv, ForkInv, OneCpu
  <2> QED
    BY <1>2, <2>1, <2>2, <2>3, <2>4, <2>5, <2>6, <2>7, <2>8, <2>9, <2>10,
             <2>11, <2>12, <2>13, <2>14, <2>15, <2>16, <2>17, <2>18, <2>19,
             <2>20, <2>21, <2>22, <2>23, <2>24
       DEF Scheduler, Timer, Trap, Syscall
<1> QED
  BY <1>1, <1>2 DEF Next

\* No process overruns its slice, whatever a boost overwrites meanwhile.
LEMMA SliceStep ==
    ASSUME TypeOK, OnCpuInv, SliceInv, [Next]_vars
    PROVE  SliceInv'
<1>1. CASE UNCHANGED vars
  BY <1>1 DEF vars, procVars, scanVars, trapVars, SliceInv, SliceBound,
              SliceAt, Within, TypeOK, PCs, ProcPCs, OnCpuInv, HartInv,
              OneCpu
<1>2. ASSUME NEW c \in CPUs,
             \/ Scheduler(c) \/ Timer(c) \/ Trap(c) \/ Syscall(c)
             \/ \E p \in Procs : Wakeup(c, p)
      PROVE  SliceInv'
  <2>1. CASE ScanProc(c)
    BY <2>1, Firsts, LevelFacts DEF ScanProc, Better, procVars, scanVars,
                                    trapVars, SliceInv, SliceBound, SliceAt,
                                    Within, TypeOK, PCs, ProcPCs, OnCpuInv,
                                    HartInv, OneCpu
  <2>2. CASE NextPass(c)
    BY <2>2, Firsts, LevelFacts DEF NextPass, procVars, scanVars, trapVars,
                                    SliceInv, SliceBound, SliceAt, Within,
                                    TypeOK, PCs, ProcPCs, OnCpuInv, HartInv,
                                    OneCpu
  <2>3. CASE Select(c)
    BY <2>3, Firsts, LevelFacts DEF Select, Goto, procVars, scanVars,
                                    trapVars, SliceInv, SliceBound, SliceAt,
                                    Within, TypeOK, PCs, ProcPCs, OnCpuInv,
                                    HartInv, OneCpu
  <2>4. CASE Resume(c)
    BY <2>4, Firsts, LevelFacts DEF Resume, Goto, procVars, scanVars,
                                    trapVars, SliceInv, SliceBound, SliceAt,
                                    Within, TypeOK, PCs, ProcPCs, OnCpuInv,
                                    HartInv, OneCpu
  <2>5. CASE SwitchBack(c)
    BY <2>5, Firsts, LevelFacts DEF SwitchBack, Goto, procVars, scanVars,
                                    trapVars, SliceInv, SliceBound, SliceAt,
                                    Within, TypeOK, PCs, ProcPCs, OnCpuInv,
                                    HartInv, OneCpu
  <2>6. CASE Clock(c)
    BY <2>6, Firsts, LevelFacts DEF Clock, MayTick, procVars, scanVars,
                                    trapVars, SliceInv, SliceBound, SliceAt,
                                    Within, TypeOK, PCs, ProcPCs, OnCpuInv,
                                    HartInv, OneCpu
  <2>7. CASE OtherTimer(c)
    BY <2>7, Firsts, LevelFacts DEF OtherTimer, Goto, procVars, scanVars,
                                    trapVars, SliceInv, SliceBound, SliceAt,
                                    Within, TypeOK, PCs, ProcPCs, OnCpuInv,
                                    HartInv, OneCpu
  <2>8. CASE BoostProc(c)
    <3>1. /\ k[c] \in Procs /\ queue_level'[k[c]] = 0 /\ ticks_consumed'[k[c]] = 0
          /\ \A p \in Procs \ {k[c]} : /\ queue_level'[p] = queue_level[p]
                                       /\ ticks_consumed'[p] = ticks_consumed[p]
          /\ \A d \in CPUs \ {c} : pc'[d] = pc[d]
          /\ pc'[c] \in {"boost", "clock"} /\ cproc' = cproc /\ max_ticks' = max_ticks
          /\ \A d \in CPUs \ {c} : k'[d] = k[d]
      BY <2>8 DEF BoostProc, BoostLoop, TypeOK, OnCpuInv, HartInv
    <3>2. \A p \in Procs : Within(p)' <=> p = k[c] \/ Within(p)
      <4>1. ASSUME NEW p \in Procs PROVE Within(p)' <=> p = k[c] \/ Within(p)
        <5>1. CASE p = k[c]
          BY <3>1, <5>1, Firsts, LevelFacts DEF Within
        <5>2. CASE p # k[c]
          BY <3>1, <5>2 DEF Within
        <5> QED
          BY <5>1, <5>2
      <4> QED
        BY <4>1
    <3>3. SliceBound'
      <4>1. \A p \in Procs : \/ Within(p)
                             \/ \E d \in CPUs : cproc[d] = p /\
                                  pc[d] \in {"level", "compare", "yield", "demote"}
        BY DEF SliceInv, SliceBound, Within
      <4>2. pc[c] = "boost"
        BY <2>8 DEF BoostProc
      <4>3. \A p \in Procs : \/ Within(p)'
                             \/ \E d \in CPUs : cproc[d] = p /\
                                  pc'[d] \in {"level", "compare", "yield", "demote"}
        BY <3>1, <3>2, <4>1, <4>2
      <4> QED
        BY <3>1, <4>3 DEF SliceBound, Within
    <3>4. ASSUME NEW d \in CPUs PROVE SliceAt(d)'
      <4>1. CASE d = c
        BY <3>1, <4>1 DEF SliceAt
      <4>2. CASE d # c
        <5>1. pc[d] \in {"level", "compare"} => cproc[d] \in Procs
          BY DEF TypeOK, OnCpuInv, HartInv, ProcPCs
        <5> QED
          BY <3>1, <3>2, <4>2, <5>1 DEF SliceInv, SliceAt
      <4> QED
        BY <4>1, <4>2
    <3> QED
      BY <3>3, <3>4 DEF SliceInv
  <2>9. CASE ClockDone(c)
    BY <2>9, Firsts, LevelFacts DEF ClockDone, Goto, AfterTrap, procVars,
                                    scanVars, trapVars, SliceInv,
                                    SliceBound, SliceAt, Within, TypeOK,
                                    PCs, ProcPCs, OnCpuInv, HartInv, OneCpu
  <2>10. CASE TickLoad(c)
    BY <2>10, Firsts, LevelFacts DEF TickLoad, Goto, procVars, scanVars,
                                     trapVars, SliceInv, SliceBound,
                                     SliceAt, Within, TypeOK, PCs, ProcPCs,
                                     OnCpuInv, HartInv, OneCpu
  <2>11. CASE TickStore(c)
    <3>1. /\ cproc[c] \in Procs
          /\ \A d \in CPUs \ {c} : cproc[d] # cproc[c]
      BY <2>11 DEF TickStore, Goto, TypeOK, OnCpuInv, HartInv, OneCpu, ProcPCs
    <3>2. /\ pc[c] = "store" /\ pc'[c] = "level" /\ k'[c] = 0
          /\ \A d \in CPUs \ {c} : pc'[d] = pc[d] /\ k'[d] = k[d]
          /\ queue_level' = queue_level /\ cproc' = cproc /\ max_ticks' = max_ticks
          /\ \A p \in Procs \ {cproc[c]} : ticks_consumed'[p] = ticks_consumed[p]
      BY <2>11 DEF TickStore, Goto, TypeOK, scanVars
    <3>3. \A p \in Procs \ {cproc[c]} : Within(p)' <=> Within(p)
      BY <3>2 DEF Within
    <3>4. SliceBound'
      BY <3>1, <3>2, <3>3 DEF SliceInv, SliceBound, Within
    <3>5. SliceAt(c)'
      BY <3>1, <3>2, LevelFacts DEF SliceAt, TypeOK
    <3>6. ASSUME NEW d \in CPUs \ {c} PROVE SliceAt(d)'
      <4>1. pc[d] \in {"level", "compare"} => cproc[d] \in Procs
        BY DEF TypeOK, OnCpuInv, HartInv, ProcPCs
      <4> QED
        BY <3>1, <3>2, <3>3, <4>1 DEF SliceInv, SliceAt
    <3> QED
      BY <3>4, <3>5, <3>6 DEF SliceInv
  <2>12. CASE LevelTest(c)
    <3>1. /\ cproc[c] \in Procs /\ pc[c] = "level"
          /\ queue_level[cproc[c]] \in Levels /\ k[c] \in Nat
      BY <2>12 DEF LevelTest, TypeOK, OnCpuInv, HartInv, ProcPCs
    <3>2. /\ \A d \in CPUs \ {c} : /\ pc'[d] = pc[d] /\ k'[d] = k[d]
                                   /\ max_ticks'[d] = max_ticks[d]
          /\ UNCHANGED <<queue_level, ticks_consumed, cproc>>
      BY <2>12 DEF LevelTest, TypeOK, procVars
    <3>3. /\ \A p \in Procs : Within(p)' <=> Within(p)
          /\ SliceAt(c) /\ \A d \in CPUs : SliceAt(d)
      BY <3>2 DEF Within, SliceInv
    <3>4. CASE queue_level[cproc[c]] = k[c]
      <4>1. pc'[c] = "compare" /\ max_ticks'[c] = Slice[queue_level[cproc[c]]]
        BY <2>12, <3>1, <3>4 DEF LevelTest, TypeOK
      <4> QED
        BY <3>1, <3>2, <3>3, <4>1 DEF SliceInv, SliceAt, SliceBound, Within
    <3>5. CASE queue_level[cproc[c]] # k[c] /\ k[c] + 1 = Last
      <4>1. pc'[c] = "compare" /\ max_ticks'[c] = Slice[Last]
        BY <2>12, <3>1, <3>5 DEF LevelTest, TypeOK
      <4>2. queue_level[cproc[c]] = Last \/ Within(cproc[c])
        BY <3>1, <3>3, <3>5, LevelFacts DEF SliceAt
      <4> QED
        BY <3>1, <3>2, <3>3, <4>1, <4>2 DEF SliceInv, SliceAt, SliceBound, Within
    <3>6. CASE queue_level[cproc[c]] # k[c] /\ k[c] + 1 # Last
      <4>1. pc'[c] = "level" /\ k'[c] = k[c] + 1
        BY <2>12, <3>1, <3>6 DEF LevelTest, TypeOK
      <4>2. k[c] + 1 < Last /\ (k[c] + 1 <= queue_level[cproc[c]] \/ Within(cproc[c]))
        BY <3>1, <3>3, <3>6, LevelFacts DEF SliceAt
      <4> QED
        BY <3>1, <3>2, <3>3, <4>1, <4>2 DEF SliceInv, SliceAt, SliceBound, Within
    <3> QED
      BY <3>4, <3>5, <3>6
  <2>13. CASE SliceUsed(c)
    BY <2>13, Firsts, LevelFacts DEF SliceUsed, Goto, procVars, scanVars,
                                     trapVars, SliceInv, SliceBound,
                                     SliceAt, Within, TypeOK, PCs, ProcPCs,
                                     OnCpuInv, HartInv, OneCpu
  <2>14. CASE PeekState(c)
    BY <2>14, Firsts, LevelFacts DEF PeekState, PeekNext, procVars,
                                     scanVars, trapVars, SliceInv,
                                     SliceBound, SliceAt, Within, TypeOK,
                                     PCs, ProcPCs, OnCpuInv, HartInv, OneCpu
  <2>15. CASE PeekLevel(c)
    BY <2>15, Firsts, LevelFacts DEF PeekLevel, PeekNext, procVars,
                                     scanVars, trapVars, SliceInv,
                                     SliceBound, SliceAt, Within, TypeOK,
                                     PCs, ProcPCs, OnCpuInv, HartInv, OneCpu
  <2>16. CASE YieldLock(c)
    BY <2>16, Firsts, LevelFacts DEF YieldLock, Goto, procVars, scanVars,
                                     trapVars, SliceInv, SliceBound,
                                     SliceAt, Within, TypeOK, PCs, ProcPCs,
                                     OnCpuInv, HartInv, OneCpu
  <2>17. CASE Demote(c)
    <3>1. /\ cproc[c] \in Procs /\ \A d \in CPUs \ {c} : cproc[d] # cproc[c]
          /\ queue_level[cproc[c]] \in Levels /\ ticks_consumed[cproc[c]] \in Nat
      BY <2>17 DEF Demote, Goto, TypeOK, OnCpuInv, HartInv, OneCpu, ProcPCs
    <3>2. /\ pc'[c] = "sched" /\ cproc' = cproc /\ k' = k /\ max_ticks' = max_ticks
          /\ \A d \in CPUs \ {c} : pc'[d] = pc[d]
          /\ \A p \in Procs \ {cproc[c]} : /\ queue_level'[p] = queue_level[p]
                                           /\ ticks_consumed'[p] = ticks_consumed[p]
      BY <2>17 DEF Demote, Goto, TypeOK, trapVars
    <3>3. Within(cproc[c])'
      <4>1. CASE ticks_consumed[cproc[c]] >= Slice[queue_level[cproc[c]]]
        <5>1. ticks_consumed'[cproc[c]] = 0
          BY <2>17, <3>1, <4>1 DEF Demote, TypeOK
        <5>2. queue_level'[cproc[c]] \in Levels
          BY <2>17, <3>1, <4>1, LevelFacts DEF Demote, TypeOK
        <5> QED
          BY <3>2, <5>1, <5>2, LevelFacts DEF Within
      <4>2. CASE ~(ticks_consumed[cproc[c]] >= Slice[queue_level[cproc[c]]])
        <5>1. /\ ticks_consumed'[cproc[c]] = ticks_consumed[cproc[c]]
              /\ queue_level'[cproc[c]] = queue_level[cproc[c]]
          BY <2>17, <3>1, <4>2 DEF Demote, TypeOK
        <5>2. Within(cproc[c])
          BY <3>1, <4>2, LevelFacts DEF Within
        <5> QED
          BY <3>2, <5>1, <5>2 DEF Within
      <4> QED
        BY <4>1, <4>2
    <3>4. \A p \in Procs \ {cproc[c]} : Within(p)' <=> Within(p)
      BY <3>2 DEF Within
    <3>5. SliceBound'
      BY <3>2, <3>3, <3>4 DEF SliceInv, SliceBound, Within
    <3>6. ASSUME NEW d \in CPUs PROVE SliceAt(d)'
      <4>1. pc[d] \in {"level", "compare"} => cproc[d] \in Procs
        BY DEF TypeOK, OnCpuInv, HartInv, ProcPCs
      <4> QED
        BY <3>1, <3>2, <3>4, <4>1 DEF SliceInv, SliceAt
    <3> QED
      BY <3>5, <3>6 DEF SliceInv
  <2>18. CASE Sleep(c)
    BY <2>18, Firsts, LevelFacts DEF Sleep, LeaveCpu, InSyscall, procVars,
                                     scanVars, trapVars, SliceInv,
                                     SliceBound, SliceAt, Within, TypeOK,
                                     PCs, ProcPCs, OnCpuInv, HartInv, OneCpu
  <2>19. CASE Exit(c)
    BY <2>19, Firsts, LevelFacts DEF Exit, LeaveCpu, InSyscall, KilledInTick, procVars,
                                     scanVars, trapVars, SliceInv,
                                     SliceBound, SliceAt, Within, TypeOK,
                                     PCs, ProcPCs, OnCpuInv, HartInv, OneCpu
  <2>20. CASE ForkRun(c)
    BY <2>20, Firsts, LevelFacts DEF ForkRun, Moved, procVars, scanVars,
                                     trapVars, SliceInv, SliceBound,
                                     SliceAt, Within, TypeOK, PCs, ProcPCs,
                                     OnCpuInv, HartInv, OneCpu
  <2>21. ASSUME NEW p \in Procs, Kill(c, p) PROVE SliceInv'
    BY <2>21, Firsts, LevelFacts DEF Kill, InSyscall, Moved, procVars,
                                     scanVars, trapVars, SliceInv,
                                     SliceBound, SliceAt, Within, TypeOK,
                                     PCs, ProcPCs, OnCpuInv, HartInv, OneCpu
  <2>22. ASSUME NEW p \in Procs, ForkAlloc(c, p) PROVE SliceInv'
    BY <2>22, Firsts, LevelFacts DEF ForkAlloc, InSyscall, procVars,
                                     scanVars, trapVars, SliceInv,
                                     SliceBound, SliceAt, Within, TypeOK,
                                     PCs, ProcPCs, OnCpuInv, HartInv,
                                     OneCpu, StateInv, ForkInv
  <2>23. ASSUME NEW p \in Procs, Reap(c, p) PROVE SliceInv'
    BY <2>23, Firsts, LevelFacts DEF Reap, InSyscall, procVars, scanVars,
                                     trapVars, SliceInv, SliceBound,
                                     SliceAt, Within, TypeOK, PCs, ProcPCs,
                                     OnCpuInv, HartInv, OneCpu
  <2>24. ASSUME NEW p \in Procs, Wakeup(c, p) PROVE SliceInv'
    BY <2>24, Firsts, LevelFacts DEF Wakeup, InterruptsOn, Moved, procVars,
                                     scanVars, trapVars, SliceInv,
                                     SliceBound, SliceAt, Within, TypeOK,
                                     PCs, ProcPCs, OnCpuInv, HartInv, OneCpu
  <2> QED
    BY <1>2, <2>1, <2>2, <2>3, <2>4, <2>5, <2>6, <2>7, <2>8, <2>9, <2>10,
             <2>11, <2>12, <2>13, <2>14, <2>15, <2>16, <2>17, <2>18, <2>19,
             <2>20, <2>21, <2>22, <2>23, <2>24
       DEF Scheduler, Timer, Trap, Syscall
<1> QED
  BY <1>1, <1>2 DEF Next

\* What waiting names is RUNNABLE.
LEMMA WaitStep ==
    ASSUME TypeOK, OnCpuInv, WaitInv, [Next]_vars
    PROVE  WaitInv'
<1>1. CASE UNCHANGED vars
  BY <1>1 DEF vars, procVars, scanVars, trapVars, TypeOK, PCs, ProcPCs,
              LockPCs, WaitInv, Runnable, OnCpuInv, HartInv, StateInv,
              LockInv, ForkInv
<1>2. ASSUME NEW c \in CPUs,
             \/ Scheduler(c) \/ Timer(c) \/ Trap(c) \/ Syscall(c)
             \/ \E p \in Procs : Wakeup(c, p)
      PROVE  WaitInv'
  <2>1. CASE ScanProc(c)
    BY <2>1, Firsts DEF ScanProc, Better, procVars, scanVars, trapVars,
                        TypeOK, PCs, ProcPCs, LockPCs, WaitInv, Runnable,
                        OnCpuInv, HartInv, StateInv, LockInv, ForkInv
  <2>2. CASE NextPass(c)
    BY <2>2, Firsts DEF NextPass, procVars, scanVars, trapVars, TypeOK, PCs,
                        ProcPCs, LockPCs, WaitInv, Runnable, OnCpuInv,
                        HartInv, StateInv, LockInv, ForkInv
  <2>3. CASE Select(c)
    BY <2>3, Firsts DEF Select, Goto, procVars, scanVars, trapVars, TypeOK,
                        PCs, ProcPCs, LockPCs, WaitInv, Runnable, OnCpuInv,
                        HartInv, StateInv, LockInv, ForkInv
  <2>4. CASE Resume(c)
    BY <2>4, Firsts DEF Resume, Goto, procVars, scanVars, trapVars, TypeOK,
                        PCs, ProcPCs, LockPCs, WaitInv, Runnable, OnCpuInv,
                        HartInv, StateInv, LockInv, ForkInv
  <2>5. CASE SwitchBack(c)
    BY <2>5, Firsts DEF SwitchBack, Goto, procVars, scanVars, trapVars,
                        TypeOK, PCs, ProcPCs, LockPCs, WaitInv, Runnable,
                        OnCpuInv, HartInv, StateInv, LockInv, ForkInv
  <2>6. CASE Clock(c)
    BY <2>6, Firsts DEF Clock, MayTick, procVars, scanVars, trapVars,
                        TypeOK, PCs, ProcPCs, LockPCs, WaitInv, Runnable,
                        OnCpuInv, HartInv, StateInv, LockInv, ForkInv
  <2>7. CASE OtherTimer(c)
    BY <2>7, Firsts DEF OtherTimer, Goto, procVars, scanVars, trapVars,
                        TypeOK, PCs, ProcPCs, LockPCs, WaitInv, Runnable,
                        OnCpuInv, HartInv, StateInv, LockInv, ForkInv
  <2>8. CASE BoostProc(c)
    BY <2>8, Firsts DEF BoostProc, BoostLoop, Moved, procVars, scanVars,
                        trapVars, TypeOK, PCs, ProcPCs, LockPCs, WaitInv,
                        Runnable, OnCpuInv, HartInv, StateInv, LockInv,
                        ForkInv
  <2>9. CASE ClockDone(c)
    BY <2>9, Firsts DEF ClockDone, Goto, AfterTrap, procVars, scanVars,
                        trapVars, TypeOK, PCs, ProcPCs, LockPCs, WaitInv,
                        Runnable, OnCpuInv, HartInv, StateInv, LockInv,
                        ForkInv
  <2>10. CASE TickLoad(c)
    BY <2>10, Firsts DEF TickLoad, Goto, procVars, scanVars, trapVars,
                         TypeOK, PCs, ProcPCs, LockPCs, WaitInv, Runnable,
                         OnCpuInv, HartInv, StateInv, LockInv, ForkInv
  <2>11. CASE TickStore(c)
    BY <2>11, Firsts DEF TickStore, Goto, procVars, scanVars, trapVars,
                         TypeOK, PCs, ProcPCs, LockPCs, WaitInv, Runnable,
                         OnCpuInv, HartInv, StateInv, LockInv, ForkInv
  <2>12. CASE LevelTest(c)
    BY <2>12, Firsts DEF LevelTest, procVars, scanVars, trapVars, TypeOK,
                         PCs, ProcPCs, LockPCs, WaitInv, Runnable, OnCpuInv,
                         HartInv, StateInv, LockInv, ForkInv
  <2>13. CASE SliceUsed(c)
    BY <2>13, Firsts DEF SliceUsed, Goto, procVars, scanVars, trapVars,
                         TypeOK, PCs, ProcPCs, LockPCs, WaitInv, Runnable,
                         OnCpuInv, HartInv, StateInv, LockInv, ForkInv
  <2>14. CASE PeekState(c)
    BY <2>14, Firsts DEF PeekState, PeekNext, procVars, scanVars, trapVars,
                         TypeOK, PCs, ProcPCs, LockPCs, WaitInv, Runnable,
                         OnCpuInv, HartInv, StateInv, LockInv, ForkInv
  <2>15. CASE PeekLevel(c)
    BY <2>15, Firsts DEF PeekLevel, PeekNext, procVars, scanVars, trapVars,
                         TypeOK, PCs, ProcPCs, LockPCs, WaitInv, Runnable,
                         OnCpuInv, HartInv, StateInv, LockInv, ForkInv
  <2>16. CASE YieldLock(c)
    BY <2>16, Firsts DEF YieldLock, Goto, procVars, scanVars, trapVars,
                         TypeOK, PCs, ProcPCs, LockPCs, WaitInv, Runnable,
                         OnCpuInv, HartInv, StateInv, LockInv, ForkInv
  <2>17. CASE Demote(c)
    BY <2>17, Firsts DEF Demote, Goto, Moved, procVars, scanVars, trapVars,
                         TypeOK, PCs, ProcPCs, LockPCs, WaitInv, Runnable,
                         OnCpuInv, HartInv, StateInv, LockInv, ForkInv
  <2>18. CASE Sleep(c)
    BY <2>18, Firsts DEF Sleep, LeaveCpu, InSyscall, procVars, scanVars,
                         trapVars, TypeOK, PCs, ProcPCs, LockPCs, WaitInv,
                         Runnable, OnCpuInv, HartInv, StateInv, LockInv,
                         ForkInv
  <2>19. CASE Exit(c)
    BY <2>19, Firsts DEF Exit, LeaveCpu, InSyscall, KilledInTick, procVars, scanVars,
                         trapVars, TypeOK, PCs, ProcPCs, LockPCs, WaitInv,
                         Runnable, OnCpuInv, HartInv, StateInv, LockInv,
                         ForkInv
  <2>20. CASE ForkRun(c)
    BY <2>20, Firsts DEF ForkRun, Moved, procVars, scanVars, trapVars,
                         TypeOK, PCs, ProcPCs, LockPCs, WaitInv, Runnable,
                         OnCpuInv, HartInv, StateInv, LockInv, ForkInv
  <2>21. ASSUME NEW p \in Procs, Kill(c, p) PROVE WaitInv'
    BY <2>21, Firsts DEF Kill, InSyscall, Moved, procVars, scanVars,
                         trapVars, TypeOK, PCs, ProcPCs, LockPCs, WaitInv,
                         Runnable, OnCpuInv, HartInv, StateInv, LockInv,
                         ForkInv
  <2>22. ASSUME NEW p \in Procs, ForkAlloc(c, p) PROVE WaitInv'
    BY <2>22, Firsts DEF ForkAlloc, InSyscall, procVars, scanVars, trapVars,
                         TypeOK, PCs, ProcPCs, LockPCs, WaitInv, Runnable,
                         OnCpuInv, HartInv, StateInv, LockInv, ForkInv
  <2>23. ASSUME NEW p \in Procs, Reap(c, p) PROVE WaitInv'
    BY <2>23, Firsts DEF Reap, InSyscall, procVars, scanVars, trapVars,
                         TypeOK, PCs, ProcPCs, LockPCs, WaitInv, Runnable,
                         OnCpuInv, HartInv, StateInv, LockInv, ForkInv
  <2>24. ASSUME NEW p \in Procs, Wakeup(c, p) PROVE WaitInv'
    BY <2>24, Firsts DEF Wakeup, InterruptsOn, Moved, procVars, scanVars,
                         trapVars, TypeOK, PCs, ProcPCs, LockPCs, WaitInv,
                         Runnable, OnCpuInv, HartInv, StateInv, LockInv,
                         ForkInv
  <2> QED
    BY <1>2, <2>1, <2>2, <2>3, <2>4, <2>5, <2>6, <2>7, <2>8, <2>9, <2>10,
             <2>11, <2>12, <2>13, <2>14, <2>15, <2>16, <2>17, <2>18, <2>19,
             <2>20, <2>21, <2>22, <2>23, <2>24
       DEF Scheduler, Timer, Trap, Syscall
<1> QED
  BY <1>1, <1>2 DEF Next

\* The candidate of a scan is the best of what it has looked at.
LEMMA ScanStep ==
    ASSUME TypeOK, OnCpuInv, WaitInv, ScanInv, [Next]_vars
    PROVE  ScanInv'
<1>1. CASE UNCHANGED vars
  BY <1>1 DEF vars, procVars, scanVars, trapVars, TypeOK, PCs, ProcPCs,
              LockPCs, OnCpuInv, HartInv, LockInv, StateInv, ForkInv,
              WaitInv, ScanInv, ScanAt, Before, Runnable
<1>2. ASSUME NEW c \in CPUs,
             \/ Scheduler(c) \/ Timer(c) \/ Trap(c) \/ Syscall(c)
             \/ \E p \in Procs : Wakeup(c, p)
      PROVE  ScanInv'
  <2>1. CASE ScanProc(c)
    <3>1. /\ idx[c] \in Procs /\ idx[c] \in Nat /\ cproc[c] = NoProc
          /\ \A p \in Procs : p \in Nat /\ enter_time[p] \in Nat
          /\ \A p \in Procs : queue_level[p] \in Nat
          /\ best_p[c] # NoProc => best_p[c] \in Procs
          /\ pass[c] \in Nat
      BY <2>1, SlotFacts, LevelFacts DEF ScanProc, TypeOK, OnCpuInv, HartInv
    <3>2. /\ idx'[c] = idx[c] + 1
          /\ \A d \in CPUs \ {c} : idx'[d] = idx[d] /\ best_p'[d] = best_p[d]
          /\ UNCHANGED <<queue_level, enter_time, state, pass, waiting, cproc>>
      BY <2>1 DEF ScanProc, TypeOK, procVars
    <3>3. ScanAt(c) /\ waiting[c] \subseteq Procs
          /\ \A p \in waiting[c] : state[p] = "RUNNABLE"
      BY <3>1 DEF ScanInv, WaitInv, TypeOK
    <3>4. \A p, q \in Procs : Before(p, q)' <=> Before(p, q)
      BY <3>2 DEF Before
    <3>5. ScanAt(c)'
      <4>1. CASE Better(c, idx[c])
        <5>1. best_p'[c] = idx[c] /\ idx[c] # NoProc
          BY <2>1, <3>1, <4>1, Firsts DEF ScanProc, TypeOK
        <5>2. /\ queue_level[idx[c]] = pass[c]
              /\ best_p[c] # NoProc => Before(idx[c], best_p[c])
          BY <3>1, <4>1 DEF Better, Before
        <5>3. ASSUME NEW p \in waiting[c], p # idx[c],
                     queue_level[p] = pass[c], p < idx[c] + 1
              PROVE  Before(idx[c], p)
          <6>1. p \in Procs /\ p < idx[c]
            BY <3>1, <3>3, <5>3
          <6>2. best_p[c] # NoProc
            BY <3>3, <5>3, <6>1, Firsts DEF ScanAt
          <6>3. p = best_p[c] \/ Before(best_p[c], p)
            BY <3>3, <5>3, <6>1 DEF ScanAt
          <6> QED
            BY <3>1, <5>2, <6>1, <6>2, <6>3 DEF Before
        <5>4. \A p \in waiting[c] : queue_level[p] >= pass[c]
          BY <3>1, <3>3, Firsts DEF ScanAt
        <5> QED
          BY <3>1, <3>2, <3>3, <3>4, <5>1, <5>2, <5>3, <5>4 DEF ScanAt
      <4>2. CASE ~Better(c, idx[c])
        <5>1. best_p'[c] = best_p[c]
          BY <2>1, <4>2 DEF ScanProc
        <5>2. ASSUME NEW p \in waiting[c] \ {best_p[c]},
                     queue_level[p] = pass[c], p < idx[c] + 1
              PROVE  best_p[c] # NoProc /\ Before(best_p[c], p)
          <6>1. CASE p = idx[c]
            <7>1. /\ best_p[c] # NoProc
                  /\ ~(enter_time[p] < enter_time[best_p[c]])
              BY <3>3, <4>2, <5>2, <6>1 DEF Better
            <7>2. best_p[c] < p
              BY <3>3, <6>1, <7>1 DEF ScanAt
            <7> QED
              BY <3>1, <6>1, <7>1, <7>2 DEF Before
          <6>2. CASE p # idx[c]
            BY <3>1, <3>3, <5>2, <6>2 DEF ScanAt
          <6> QED
            BY <6>1, <6>2
        <5>3. best_p[c] # NoProc => best_p[c] < idx[c] + 1
          BY <3>1, <3>3 DEF ScanAt
        <5> QED
          BY <3>1, <3>2, <3>3, <3>4, <5>1, <5>2, <5>3 DEF ScanAt
      <4> QED
        BY <4>1, <4>2
    <3>6. ASSUME NEW d \in CPUs \ {c}, cproc[d] = NoProc PROVE ScanAt(d)'
      BY <3>2, <3>6 DEF ScanInv, ScanAt, Before
    <3> QED
      BY <3>2, <3>5, <3>6 DEF ScanInv
  <2>2. CASE NextPass(c)
    <3>0. \A p \in Procs : p \in Nat /\ p < N + 1
      BY SlotFacts
    <3>1. /\ pass[c] \in Levels /\ idx[c] = N + 1 /\ best_p[c] = NoProc
          /\ cproc[c] = NoProc /\ waiting[c] \subseteq Procs
          /\ \A p \in Procs : queue_level[p] \in Levels
      BY <2>2 DEF NextPass, TypeOK, OnCpuInv, HartInv
    <3>2. /\ \A d \in CPUs \ {c} : /\ idx'[d] = idx[d] /\ pass'[d] = pass[d]
                                   /\ waiting'[d] = waiting[d]
          /\ idx'[c] = 1 /\ UNCHANGED <<best_p, cproc, queue_level, enter_time>>
      BY <2>2 DEF NextPass, TypeOK, procVars
    <3>3. ScanAt(c)
      BY <3>1 DEF ScanInv
    <3>4. \A p \in waiting[c] : queue_level[p] > pass[c]
      <4>1. \A p \in waiting[c] : queue_level[p] >= pass[c] /\ queue_level[p] # pass[c]
        BY <3>0, <3>1, <3>3, Firsts DEF ScanAt
      <4> QED
        BY <3>1, <4>1, LevelFacts
    <3>5. ScanAt(c)'
      <4>1. CASE pass[c] < Last
        <5>1. pass'[c] = pass[c] + 1 /\ waiting' = waiting
          BY <2>2, <4>1 DEF NextPass, TypeOK
        <5>2. \A p \in waiting[c] : p # NoProc /\ ~(p < 1)
          BY <3>1, Firsts DEF Procs
        <5>3. \A p \in waiting[c] : queue_level[p] >= pass[c] + 1
          BY <3>1, <3>4, LevelFacts
        <5> QED
          BY <3>1, <3>2, <5>1, <5>2, <5>3 DEF ScanAt
      <4>2. CASE ~(pass[c] < Last)
        <5>1. pass'[c] = 0 /\ waiting'[c] = Runnable
          BY <2>2, <4>2 DEF NextPass, TypeOK
        <5>2. \A p \in Runnable : queue_level[p] >= 0 /\ ~(p < 1)
          BY <3>1, LevelFacts DEF Runnable, Procs
        <5> QED
          BY <3>1, <3>2, <5>1, <5>2 DEF ScanAt
      <4> QED
        BY <4>1, <4>2
    <3>6. ASSUME NEW d \in CPUs \ {c}, cproc[d] = NoProc PROVE ScanAt(d)'
      BY <3>2, <3>6 DEF ScanInv, ScanAt, Before
    <3> QED
      BY <3>2, <3>5, <3>6 DEF ScanInv
  <2>3. CASE Select(c)
    BY <2>3, Firsts, LevelFacts DEF Select, Goto, procVars, scanVars,
                                    trapVars, TypeOK, PCs, ProcPCs, LockPCs,
                                    OnCpuInv, HartInv, LockInv, StateInv,
                                    ForkInv, WaitInv, ScanInv, ScanAt,
                                    Before, Runnable
  <2>4. CASE Resume(c)
    BY <2>4, Firsts, LevelFacts DEF Resume, Goto, procVars, scanVars,
                                    trapVars, TypeOK, PCs, ProcPCs, LockPCs,
                                    OnCpuInv, HartInv, LockInv, StateInv,
                                    ForkInv, WaitInv, ScanInv, ScanAt,
                                    Before, Runnable
  <2>5. CASE SwitchBack(c)
    <3>1. /\ pass'[c] = 0 /\ idx'[c] = 1 /\ best_p'[c] = NoProc
          /\ waiting'[c] = Runnable
      BY <2>5 DEF SwitchBack, Goto, TypeOK, OnCpuInv, HartInv, ProcPCs
    <3>2. /\ \A d \in CPUs \ {c} : /\ idx'[d] = idx[d] /\ pass'[d] = pass[d]
                                   /\ waiting'[d] = waiting[d]
                                   /\ best_p'[d] = best_p[d] /\ cproc'[d] = cproc[d]
          /\ UNCHANGED <<queue_level, enter_time>>
      BY <2>5 DEF SwitchBack, TypeOK, procVars
    <3>0. \A p \in Procs : queue_level[p] \in Levels /\ ~(p < 1)
      BY DEF TypeOK, Procs
    <3>3. \A p \in Runnable : queue_level[p] >= 0 /\ ~(p < 1)
      BY <3>0, LevelFacts DEF Runnable
    <3>4. ScanAt(c)'
      BY <3>1, <3>2, <3>3 DEF ScanAt
    <3>5. ASSUME NEW d \in CPUs \ {c}, cproc[d] = NoProc PROVE ScanAt(d)'
      BY <3>2, <3>5 DEF ScanInv, ScanAt, Before
    <3> QED
      BY <3>2, <3>4, <3>5 DEF ScanInv
  <2>6. CASE Clock(c)
    BY <2>6, Firsts, LevelFacts DEF Clock, MayTick, procVars, scanVars,
                                    trapVars, TypeOK, PCs, ProcPCs, LockPCs,
                                    OnCpuInv, HartInv, LockInv, StateInv,
                                    ForkInv, WaitInv, ScanInv, ScanAt,
                                    Before, Runnable
  <2>7. CASE OtherTimer(c)
    BY <2>7, Firsts, LevelFacts DEF OtherTimer, Goto, procVars, scanVars,
                                    trapVars, TypeOK, PCs, ProcPCs, LockPCs,
                                    OnCpuInv, HartInv, LockInv, StateInv,
                                    ForkInv, WaitInv, ScanInv, ScanAt,
                                    Before, Runnable
  <2>8. CASE BoostProc(c)
    BY <2>8, Firsts, LevelFacts DEF BoostProc, BoostLoop, Moved, procVars,
                                    scanVars, trapVars, TypeOK, PCs,
                                    ProcPCs, LockPCs, OnCpuInv, HartInv,
                                    LockInv, StateInv, ForkInv, WaitInv,
                                    ScanInv, ScanAt, Before, Runnable
  <2>9. CASE ClockDone(c)
    BY <2>9, Firsts, LevelFacts DEF ClockDone, Goto, AfterTrap, procVars,
                                    scanVars, trapVars, TypeOK, PCs,
                                    ProcPCs, LockPCs, OnCpuInv, HartInv,
                                    LockInv, StateInv, ForkInv, WaitInv,
                                    ScanInv, ScanAt, Before, Runnable
  <2>10. CASE TickLoad(c)
    BY <2>10, Firsts, LevelFacts DEF TickLoad, Goto, procVars, scanVars,
                                     trapVars, TypeOK, PCs, ProcPCs,
                                     LockPCs, OnCpuInv, HartInv, LockInv,
                                     StateInv, ForkInv, WaitInv, ScanInv,
                                     ScanAt, Before, Runnable
  <2>11. CASE TickStore(c)
    BY <2>11, Firsts, LevelFacts DEF TickStore, Goto, procVars, scanVars,
                                     trapVars, TypeOK, PCs, ProcPCs,
                                     LockPCs, OnCpuInv, HartInv, LockInv,
                                     StateInv, ForkInv, WaitInv, ScanInv,
                                     ScanAt, Before, Runnable
  <2>12. CASE LevelTest(c)
    BY <2>12, Firsts, LevelFacts DEF LevelTest, procVars, scanVars,
                                     trapVars, TypeOK, PCs, ProcPCs,
                                     LockPCs, OnCpuInv, HartInv, LockInv,
                                     StateInv, ForkInv, WaitInv, ScanInv,
                                     ScanAt, Before, Runnable
  <2>13. CASE SliceUsed(c)
    BY <2>13, Firsts, LevelFacts DEF SliceUsed, Goto, procVars, scanVars,
                                     trapVars, TypeOK, PCs, ProcPCs,
                                     LockPCs, OnCpuInv, HartInv, LockInv,
                                     StateInv, ForkInv, WaitInv, ScanInv,
                                     ScanAt, Before, Runnable
  <2>14. CASE PeekState(c)
    BY <2>14, Firsts, LevelFacts DEF PeekState, PeekNext, procVars,
                                     scanVars, trapVars, TypeOK, PCs,
                                     ProcPCs, LockPCs, OnCpuInv, HartInv,
                                     LockInv, StateInv, ForkInv, WaitInv,
                                     ScanInv, ScanAt, Before, Runnable
  <2>15. CASE PeekLevel(c)
    BY <2>15, Firsts, LevelFacts DEF PeekLevel, PeekNext, procVars,
                                     scanVars, trapVars, TypeOK, PCs,
                                     ProcPCs, LockPCs, OnCpuInv, HartInv,
                                     LockInv, StateInv, ForkInv, WaitInv,
                                     ScanInv, ScanAt, Before, Runnable
  <2>16. CASE YieldLock(c)
    BY <2>16, Firsts, LevelFacts DEF YieldLock, Goto, procVars, scanVars,
                                     trapVars, TypeOK, PCs, ProcPCs,
                                     LockPCs, OnCpuInv, HartInv, LockInv,
                                     StateInv, ForkInv, WaitInv, ScanInv,
                                     ScanAt, Before, Runnable
  <2>17. CASE Demote(c)
    BY <2>17, Firsts, LevelFacts DEF Demote, Goto, Moved, procVars,
                                     scanVars, trapVars, TypeOK, PCs,
                                     ProcPCs, LockPCs, OnCpuInv, HartInv,
                                     LockInv, StateInv, ForkInv, WaitInv,
                                     ScanInv, ScanAt, Before, Runnable
  <2>18. CASE Sleep(c)
    BY <2>18, Firsts, LevelFacts DEF Sleep, LeaveCpu, InSyscall, procVars,
                                     scanVars, trapVars, TypeOK, PCs,
                                     ProcPCs, LockPCs, OnCpuInv, HartInv,
                                     LockInv, StateInv, ForkInv, WaitInv,
                                     ScanInv, ScanAt, Before, Runnable
  <2>19. CASE Exit(c)
    BY <2>19, Firsts, LevelFacts DEF Exit, LeaveCpu, InSyscall, KilledInTick, procVars,
                                     scanVars, trapVars, TypeOK, PCs,
                                     ProcPCs, LockPCs, OnCpuInv, HartInv,
                                     LockInv, StateInv, ForkInv, WaitInv,
                                     ScanInv, ScanAt, Before, Runnable
  <2>20. CASE ForkRun(c)
    BY <2>20, Firsts, LevelFacts DEF ForkRun, Moved, procVars, scanVars,
                                     trapVars, TypeOK, PCs, ProcPCs,
                                     LockPCs, OnCpuInv, HartInv, LockInv,
                                     StateInv, ForkInv, WaitInv, ScanInv,
                                     ScanAt, Before, Runnable
  <2>21. ASSUME NEW p \in Procs, Kill(c, p) PROVE ScanInv'
    BY <2>21, Firsts, LevelFacts DEF Kill, InSyscall, Moved, procVars,
                                     scanVars, trapVars, TypeOK, PCs,
                                     ProcPCs, LockPCs, OnCpuInv, HartInv,
                                     LockInv, StateInv, ForkInv, WaitInv,
                                     ScanInv, ScanAt, Before, Runnable
  <2>22. ASSUME NEW p \in Procs, ForkAlloc(c, p) PROVE ScanInv'
    BY <2>22, Firsts, LevelFacts DEF ForkAlloc, InSyscall, procVars,
                                     scanVars, trapVars, TypeOK, PCs,
                                     ProcPCs, LockPCs, OnCpuInv, HartInv,
                                     LockInv, StateInv, ForkInv, WaitInv,
                                     ScanInv, ScanAt, Before, Runnable
  <2>23. ASSUME NEW p \in Procs, Reap(c, p) PROVE ScanInv'
    BY <2>23, Firsts, LevelFacts DEF Reap, InSyscall, procVars, scanVars,
                                     trapVars, TypeOK, PCs, ProcPCs,
                                     LockPCs, OnCpuInv, HartInv, LockInv,
                                     StateInv, ForkInv, WaitInv, ScanInv,
                                     ScanAt, Before, Runnable
  <2>24. ASSUME NEW p \in Procs, Wakeup(c, p) PROVE ScanInv'
    BY <2>24, Firsts, LevelFacts DEF Wakeup, InterruptsOn, Moved, procVars,
                                     scanVars, trapVars, TypeOK, PCs,
                                     ProcPCs, LockPCs, OnCpuInv, HartInv,
                                     LockInv, StateInv, ForkInv, WaitInv,
                                     ScanInv, ScanAt, Before, Runnable
  <2> QED
    BY <1>2, <2>1, <2>2, <2>3, <2>4, <2>5, <2>6, <2>7, <2>8, <2>9, <2>10,
             <2>11, <2>12, <2>13, <2>14, <2>15, <2>16, <2>17, <2>18, <2>19,
             <2>20, <2>21, <2>22, <2>23, <2>24
       DEF Scheduler, Timer, Trap, Syscall
<1> QED
  BY <1>1, <1>2 DEF Next

\* The search of a tick has passed over nothing of a higher queue.
LEMMA PreemptStep ==
    ASSUME TypeOK, OnCpuInv, WaitInv, PreemptInv, [Next]_vars
    PROVE  PreemptInv'
<1>1. CASE UNCHANGED vars
  BY <1>1 DEF vars, procVars, scanVars, trapVars, TypeOK, PCs, ProcPCs,
              OnCpuInv, HartInv, StateInv, OneCpu, WaitInv, PreemptInv,
              PreemptAt, NoneHigher, Runnable
<1>2. ASSUME NEW c \in CPUs,
             \/ Scheduler(c) \/ Timer(c) \/ Trap(c) \/ Syscall(c)
             \/ \E p \in Procs : Wakeup(c, p)
      PROVE  PreemptInv'
  <2>1. CASE ScanProc(c)
    BY <2>1, Firsts, LevelFacts DEF ScanProc, Better, procVars, scanVars,
                                    trapVars, TypeOK, PCs, ProcPCs,
                                    OnCpuInv, HartInv, StateInv, OneCpu,
                                    WaitInv, PreemptInv, PreemptAt,
                                    NoneHigher, Runnable
  <2>2. CASE NextPass(c)
    BY <2>2, Firsts, LevelFacts DEF NextPass, procVars, scanVars, trapVars,
                                    TypeOK, PCs, ProcPCs, OnCpuInv, HartInv,
                                    StateInv, OneCpu, WaitInv, PreemptInv,
                                    PreemptAt, NoneHigher, Runnable
  <2>3. CASE Select(c)
    BY <2>3, Firsts, LevelFacts DEF Select, Goto, procVars, scanVars,
                                    trapVars, TypeOK, PCs, ProcPCs,
                                    OnCpuInv, HartInv, StateInv, OneCpu,
                                    WaitInv, PreemptInv, PreemptAt,
                                    NoneHigher, Runnable
  <2>4. CASE Resume(c)
    BY <2>4, Firsts, LevelFacts DEF Resume, Goto, procVars, scanVars,
                                    trapVars, TypeOK, PCs, ProcPCs,
                                    OnCpuInv, HartInv, StateInv, OneCpu,
                                    WaitInv, PreemptInv, PreemptAt,
                                    NoneHigher, Runnable
  <2>5. CASE SwitchBack(c)
    BY <2>5, Firsts, LevelFacts DEF SwitchBack, Goto, procVars, scanVars,
                                    trapVars, TypeOK, PCs, ProcPCs,
                                    OnCpuInv, HartInv, StateInv, OneCpu,
                                    WaitInv, PreemptInv, PreemptAt,
                                    NoneHigher, Runnable
  <2>6. CASE Clock(c)
    BY <2>6, Firsts, LevelFacts DEF Clock, MayTick, procVars, scanVars,
                                    trapVars, TypeOK, PCs, ProcPCs,
                                    OnCpuInv, HartInv, StateInv, OneCpu,
                                    WaitInv, PreemptInv, PreemptAt,
                                    NoneHigher, Runnable
  <2>7. CASE OtherTimer(c)
    BY <2>7, Firsts, LevelFacts DEF OtherTimer, Goto, procVars, scanVars,
                                    trapVars, TypeOK, PCs, ProcPCs,
                                    OnCpuInv, HartInv, StateInv, OneCpu,
                                    WaitInv, PreemptInv, PreemptAt,
                                    NoneHigher, Runnable
  <2>8. CASE BoostProc(c)
    <3>1. /\ k[c] \in Procs /\ queue_level'[k[c]] = 0
          /\ \A p \in Procs \ {k[c]} : queue_level'[p] = queue_level[p]
          /\ \A d \in CPUs : waiting'[d] = waiting[d] \ {k[c]}
          /\ \A d \in CPUs \ {c} : pc'[d] = pc[d] /\ k'[d] = k[d]
          /\ pc'[c] \in {"boost", "clock"} /\ cproc' = cproc
      BY <2>8 DEF BoostProc, BoostLoop, Moved, TypeOK, OnCpuInv, HartInv
    <3>2. \A p \in Procs : queue_level[p] \in Nat
      BY LevelFacts DEF TypeOK
    <3>3. ASSUME NEW d \in CPUs PROVE PreemptAt(d)'
      <4>1. CASE d = c
        BY <3>1, <4>1 DEF PreemptAt
      <4>2. CASE d # c
        <5>1. /\ waiting[d] \subseteq Procs
              /\ pc[d] \in {"run", "peek", "peeklevel"} => cproc[d] \in Procs
          BY DEF TypeOK, OnCpuInv, HartInv, ProcPCs
        <5>2. ASSUME NEW p \in waiting'[d], cproc[d] \in Procs, NoneHigher(d, p)
              PROVE  NoneHigher(d, p)'
          BY <3>1, <3>2, <5>1, <5>2 DEF NoneHigher
        <5> QED
          BY <3>1, <4>2, <5>1, <5>2 DEF PreemptInv, PreemptAt
      <4> QED
        BY <4>1, <4>2
    <3> QED
      BY <3>3 DEF PreemptInv
  <2>9. CASE ClockDone(c)
    BY <2>9, Firsts, LevelFacts DEF ClockDone, Goto, AfterTrap, procVars,
                                    scanVars, trapVars, TypeOK, PCs,
                                    ProcPCs, OnCpuInv, HartInv, StateInv,
                                    OneCpu, WaitInv, PreemptInv, PreemptAt,
                                    NoneHigher, Runnable
  <2>10. CASE TickLoad(c)
    BY <2>10, Firsts, LevelFacts DEF TickLoad, Goto, procVars, scanVars,
                                     trapVars, TypeOK, PCs, ProcPCs,
                                     OnCpuInv, HartInv, StateInv, OneCpu,
                                     WaitInv, PreemptInv, PreemptAt,
                                     NoneHigher, Runnable
  <2>11. CASE TickStore(c)
    BY <2>11, Firsts, LevelFacts DEF TickStore, Goto, procVars, scanVars,
                                     trapVars, TypeOK, PCs, ProcPCs,
                                     OnCpuInv, HartInv, StateInv, OneCpu,
                                     WaitInv, PreemptInv, PreemptAt,
                                     NoneHigher, Runnable
  <2>12. CASE LevelTest(c)
    BY <2>12, Firsts, LevelFacts DEF LevelTest, procVars, scanVars,
                                     trapVars, TypeOK, PCs, ProcPCs,
                                     OnCpuInv, HartInv, StateInv, OneCpu,
                                     WaitInv, PreemptInv, PreemptAt,
                                     NoneHigher, Runnable
  <2>13. CASE SliceUsed(c)
    <3>1. /\ pc[c] = "compare" /\ pc'[c] \in {"peek", "yield"}
          /\ \A d \in CPUs \ {c} : pc'[d] = pc[d]
          /\ UNCHANGED <<k, queue_level, cproc, waiting>>
      BY <2>13 DEF SliceUsed, Goto, TypeOK, procVars
    <3>2. k[c] = 1 /\ 1 \in Procs /\ waiting[c] \subseteq Procs
      BY <3>1, Firsts DEF PreemptInv, PreemptAt, TypeOK
    <3>3. \A p \in Procs : ~(p < 1)
      BY DEF Procs
    <3>4. PreemptAt(c)'
      BY <3>1, <3>2, <3>3 DEF PreemptAt
    <3>5. ASSUME NEW d \in CPUs \ {c} PROVE PreemptAt(d)'
      BY <3>1 DEF PreemptInv, PreemptAt, NoneHigher
    <3> QED
      BY <3>4, <3>5 DEF PreemptInv
  <2>14. CASE PeekState(c)
    <3>1. /\ PreemptAt(c) /\ k[c] \in Procs /\ waiting[c] \subseteq Procs
          /\ \A p \in Procs : p \in Nat /\ p <= N /\ (p < N => p + 1 \in Procs)
          /\ N \in Nat
      BY <2>14, SlotFacts DEF PeekState, PreemptInv, PreemptAt, TypeOK
    <3>2. /\ \A d \in CPUs \ {c} : pc'[d] = pc[d] /\ k'[d] = k[d]
          /\ UNCHANGED <<queue_level, cproc, waiting>>
      BY <2>14 DEF PeekState, PeekNext, TypeOK, procVars
    <3>3. \A p \in waiting[c] : p < k[c] => NoneHigher(c, p)
      BY <2>14, <3>1 DEF PeekState, PreemptAt
    <3>4. PreemptAt(c)'
      <4>1. CASE state[k[c]] = "RUNNABLE"
        <5>1. pc'[c] = "peeklevel" /\ k' = k
          BY <2>14, <4>1 DEF PeekState, TypeOK
        <5> QED
          BY <3>1, <3>2, <3>3, <5>1 DEF PreemptAt, NoneHigher
      <4>2. CASE ~(state[k[c]] = "RUNNABLE")
        <5>1. PeekNext(c)
          BY <2>14, <4>2 DEF PeekState
        <5>2. k[c] \in waiting[c] => NoneHigher(c, k[c])
          BY <4>2 DEF WaitInv
        <5>3. CASE k[c] < N
          <6>1. pc'[c] = "peek" /\ k'[c] = k[c] + 1 /\ k[c] + 1 \in Procs
            BY <3>1, <5>1, <5>3 DEF PeekNext, TypeOK
          <6>2. \A p \in waiting[c] : p < k[c] + 1 => p < k[c] \/ p = k[c]
            BY <3>1
          <6> QED
            BY <3>2, <3>3, <5>2, <6>1, <6>2 DEF PreemptAt, NoneHigher
        <5>4. CASE ~(k[c] < N)
          <6>1. pc'[c] = "run"
            BY <5>1, <5>4 DEF PeekNext, TypeOK
          <6>2. \A p \in waiting[c] : p < k[c] \/ p = k[c]
            BY <3>1, <5>4
          <6> QED
            BY <3>2, <3>3, <5>2, <6>1, <6>2 DEF PreemptAt, NoneHigher
        <5> QED
          BY <5>3, <5>4
      <4> QED
        BY <4>1, <4>2
    <3>5. ASSUME NEW d \in CPUs \ {c} PROVE PreemptAt(d)'
      BY <3>2 DEF PreemptInv, PreemptAt, NoneHigher
    <3> QED
      BY <3>4, <3>5 DEF PreemptInv
  <2>15. CASE PeekLevel(c)
    <3>1. /\ PreemptAt(c) /\ k[c] \in Procs /\ waiting[c] \subseteq Procs
          /\ \A p \in Procs : p \in Nat /\ p <= N /\ (p < N => p + 1 \in Procs)
          /\ N \in Nat
      BY <2>15, SlotFacts DEF PeekLevel, PreemptInv, PreemptAt, TypeOK
    <3>2. /\ \A d \in CPUs \ {c} : pc'[d] = pc[d] /\ k'[d] = k[d]
          /\ UNCHANGED <<queue_level, cproc, waiting>>
      BY <2>15 DEF PeekLevel, PeekNext, TypeOK, procVars
    <3>3. \A p \in waiting[c] : p < k[c] => NoneHigher(c, p)
      BY <2>15, <3>1 DEF PeekLevel, PreemptAt
    <3>4. PreemptAt(c)'
      <4>1. CASE queue_level[k[c]] < queue_level[cproc[c]]
        <5>1. pc'[c] = "yield"
          BY <2>15, <4>1 DEF PeekLevel, TypeOK
        <5> QED
          BY <3>1, <3>2, <3>3, <5>1 DEF PreemptAt, NoneHigher
      <4>2. CASE ~(queue_level[k[c]] < queue_level[cproc[c]])
        <5>1. PeekNext(c)
          BY <2>15, <4>2 DEF PeekLevel
        <5>0. queue_level[k[c]] \in Nat /\ queue_level[cproc[c]] \in Nat
          BY <2>15, <3>1, LevelFacts DEF PeekLevel, TypeOK, OnCpuInv, HartInv, ProcPCs
        <5>2. k[c] \in waiting[c] => NoneHigher(c, k[c])
          BY <4>2, <5>0 DEF NoneHigher
        <5>3. CASE k[c] < N
          <6>1. pc'[c] = "peek" /\ k'[c] = k[c] + 1 /\ k[c] + 1 \in Procs
            BY <3>1, <5>1, <5>3 DEF PeekNext, TypeOK
          <6>2. \A p \in waiting[c] : p < k[c] + 1 => p < k[c] \/ p = k[c]
            BY <3>1
          <6> QED
            BY <3>2, <3>3, <5>2, <6>1, <6>2 DEF PreemptAt, NoneHigher
        <5>4. CASE ~(k[c] < N)
          <6>1. pc'[c] = "run"
            BY <5>1, <5>4 DEF PeekNext, TypeOK
          <6>2. \A p \in waiting[c] : p < k[c] \/ p = k[c]
            BY <3>1, <5>4
          <6> QED
            BY <3>2, <3>3, <5>2, <6>1, <6>2 DEF PreemptAt, NoneHigher
        <5> QED
          BY <5>3, <5>4
      <4> QED
        BY <4>1, <4>2
    <3>5. ASSUME NEW d \in CPUs \ {c} PROVE PreemptAt(d)'
      BY <3>2 DEF PreemptInv, PreemptAt, NoneHigher
    <3> QED
      BY <3>4, <3>5 DEF PreemptInv
  <2>16. CASE YieldLock(c)
    BY <2>16, Firsts, LevelFacts DEF YieldLock, Goto, procVars, scanVars,
                                     trapVars, TypeOK, PCs, ProcPCs,
                                     OnCpuInv, HartInv, StateInv, OneCpu,
                                     WaitInv, PreemptInv, PreemptAt,
                                     NoneHigher, Runnable
  <2>17. CASE Demote(c)
    BY <2>17, Firsts, LevelFacts DEF Demote, Goto, Moved, procVars,
                                     scanVars, trapVars, TypeOK, PCs,
                                     ProcPCs, OnCpuInv, HartInv, StateInv,
                                     OneCpu, WaitInv, PreemptInv, PreemptAt,
                                     NoneHigher, Runnable
  <2>18. CASE Sleep(c)
    BY <2>18, Firsts, LevelFacts DEF Sleep, LeaveCpu, InSyscall, procVars,
                                     scanVars, trapVars, TypeOK, PCs,
                                     ProcPCs, OnCpuInv, HartInv, StateInv,
                                     OneCpu, WaitInv, PreemptInv, PreemptAt,
                                     NoneHigher, Runnable
  <2>19. CASE Exit(c)
    BY <2>19, Firsts, LevelFacts DEF Exit, LeaveCpu, InSyscall, KilledInTick, procVars,
                                     scanVars, trapVars, TypeOK, PCs,
                                     ProcPCs, OnCpuInv, HartInv, StateInv,
                                     OneCpu, WaitInv, PreemptInv, PreemptAt,
                                     NoneHigher, Runnable
  <2>20. CASE ForkRun(c)
    BY <2>20, Firsts, LevelFacts DEF ForkRun, Moved, procVars, scanVars,
                                     trapVars, TypeOK, PCs, ProcPCs,
                                     OnCpuInv, HartInv, StateInv, OneCpu,
                                     WaitInv, PreemptInv, PreemptAt,
                                     NoneHigher, Runnable
  <2>21. ASSUME NEW p \in Procs, Kill(c, p) PROVE PreemptInv'
    BY <2>21, Firsts, LevelFacts DEF Kill, InSyscall, Moved, procVars,
                                     scanVars, trapVars, TypeOK, PCs,
                                     ProcPCs, OnCpuInv, HartInv, StateInv,
                                     OneCpu, WaitInv, PreemptInv, PreemptAt,
                                     NoneHigher, Runnable
  <2>22. ASSUME NEW p \in Procs, ForkAlloc(c, p) PROVE PreemptInv'
    BY <2>22, Firsts, LevelFacts DEF ForkAlloc, InSyscall, procVars,
                                     scanVars, trapVars, TypeOK, PCs,
                                     ProcPCs, OnCpuInv, HartInv, StateInv,
                                     OneCpu, WaitInv, PreemptInv, PreemptAt,
                                     NoneHigher, Runnable
  <2>23. ASSUME NEW p \in Procs, Reap(c, p) PROVE PreemptInv'
    BY <2>23, Firsts, LevelFacts DEF Reap, InSyscall, procVars, scanVars,
                                     trapVars, TypeOK, PCs, ProcPCs,
                                     OnCpuInv, HartInv, StateInv, OneCpu,
                                     WaitInv, PreemptInv, PreemptAt,
                                     NoneHigher, Runnable
  <2>24. ASSUME NEW p \in Procs, Wakeup(c, p) PROVE PreemptInv'
    BY <2>24, Firsts, LevelFacts DEF Wakeup, InterruptsOn, Moved, procVars,
                                     scanVars, trapVars, TypeOK, PCs,
                                     ProcPCs, OnCpuInv, HartInv, StateInv,
                                     OneCpu, WaitInv, PreemptInv, PreemptAt,
                                     NoneHigher, Runnable
  <2> QED
    BY <1>2, <2>1, <2>2, <2>3, <2>4, <2>5, <2>6, <2>7, <2>8, <2>9, <2>10,
             <2>11, <2>12, <2>13, <2>14, <2>15, <2>16, <2>17, <2>18, <2>19,
             <2>20, <2>21, <2>22, <2>23, <2>24
       DEF Scheduler, Timer, Trap, Syscall
<1> QED
  BY <1>1, <1>2 DEF Next

\* Every variable keeps its type.
LEMMA TypeStep ==
    ASSUME TypeOK, HartInv, [Next]_vars
    PROVE  TypeOK'
<1>1. CASE UNCHANGED vars
  BY <1>1 DEF vars, procVars, scanVars, trapVars, Runnable, TypeOK, PCs,
              ProcPCs, HartInv
<1>2. ASSUME NEW c \in CPUs,
             \/ Scheduler(c) \/ Timer(c) \/ Trap(c) \/ Syscall(c)
             \/ \E p \in Procs : Wakeup(c, p)
      PROVE  TypeOK'
  <2>1. CASE ScanProc(c)
    <3>1. idx[c] \in Procs /\ idx[c] + 1 \in 1..(N + 1)
      BY <2>1, SlotFacts DEF ScanProc, TypeOK
    <3> QED
      BY <2>1, <3>1 DEF ScanProc, procVars, trapVars, TypeOK
  <2>2. CASE NextPass(c)
    <3>1. pass[c] < Last => pass[c] + 1 \in Levels
      <4>1. pass[c] \in Levels
        BY DEF TypeOK
      <4> QED
        BY <4>1, LevelFacts
    <3> QED
      BY <2>2, <3>1, Firsts DEF NextPass, Runnable, procVars, trapVars, TypeOK
  <2>3. CASE Select(c)
    BY <2>3, Firsts DEF Select, Goto, procVars, scanVars, trapVars,
                        Runnable, TypeOK, PCs, ProcPCs, HartInv
  <2>4. CASE Resume(c)
    BY <2>4, Firsts DEF Resume, Goto, procVars, scanVars, trapVars,
                        Runnable, TypeOK, PCs, ProcPCs, HartInv
  <2>5. CASE SwitchBack(c)
    BY <2>5, Firsts DEF SwitchBack, Goto, procVars, scanVars, trapVars,
                        Runnable, TypeOK, PCs, ProcPCs, HartInv
  <2>6. CASE Clock(c)
    <3>1. (ticks + 1) % TickWrap \in Nat
      <4>1. ticks \in Nat
        BY DEF TypeOK
      <4> QED
        BY <4>1, WrapAssumption DEF WrapAssumption
    <3> QED
      BY <2>6, <3>1 DEF Clock, procVars, scanVars, TypeOK, PCs
  <2>7. CASE OtherTimer(c)
    BY <2>7, Firsts DEF OtherTimer, Goto, procVars, scanVars, trapVars,
                        Runnable, TypeOK, PCs, ProcPCs, HartInv
  <2>8. CASE BoostProc(c)
    <3>1. k[c] \in Nat /\ k[c] + 1 \in Nat
      BY DEF TypeOK
    <3>2. /\ queue_level' \in [Procs -> Levels]
          /\ ticks_consumed' \in [Procs -> Nat]
          /\ enter_time' \in [Procs -> Nat]
          /\ waiting' \in [CPUs -> SUBSET Procs]
      BY <2>8, Firsts DEF BoostProc, Moved, TypeOK
    <3>3. k' \in [CPUs -> Nat] /\ pc' \in [CPUs -> PCs]
      BY <2>8, <3>1 DEF BoostProc, BoostLoop, TypeOK, PCs
    <3> QED
      BY <2>8, <3>2, <3>3 DEF BoostProc, scanVars, TypeOK
  <2>9. CASE ClockDone(c)
    BY <2>9, Firsts DEF ClockDone, Goto, AfterTrap, procVars, scanVars,
                        trapVars, Runnable, TypeOK, PCs, ProcPCs, HartInv
  <2>10. CASE TickLoad(c)
    BY <2>10, Firsts DEF TickLoad, Goto, procVars, scanVars, trapVars,
                         Runnable, TypeOK, PCs, ProcPCs, HartInv
  <2>11. CASE TickStore(c)
    <3>1. loaded[c] + 1 \in Nat
      BY DEF TypeOK
    <3> QED
      BY <2>11, <3>1 DEF TickStore, Goto, scanVars, TypeOK, PCs
  <2>12. CASE LevelTest(c)
    <3>1. k[c] + 1 \in Nat
      BY DEF TypeOK
    <3>2. queue_level[cproc[c]] \in Levels
      BY <2>12 DEF LevelTest, HartInv, ProcPCs, TypeOK
    <3>3. Slice[IF queue_level[cproc[c]] = k[c] THEN k[c] ELSE Last] \in Nat
      BY <3>2, Firsts, LevelFacts
    <3>4. max_ticks' \in [CPUs -> Nat]
      BY <2>12, <3>3 DEF LevelTest, TypeOK
    <3>5. k' \in [CPUs -> Nat] /\ pc' \in [CPUs -> PCs]
      BY <2>12, <3>1 DEF LevelTest, TypeOK, PCs
    <3> QED
      BY <2>12, <3>4, <3>5 DEF LevelTest, procVars, scanVars, TypeOK
  <2>13. CASE SliceUsed(c)
    BY <2>13, Firsts DEF SliceUsed, Goto, procVars, scanVars, trapVars,
                         Runnable, TypeOK, PCs, ProcPCs, HartInv
  <2>14. CASE PeekState(c)
    <3>1. k[c] + 1 \in Nat
      BY DEF TypeOK
    <3> QED
      BY <2>14, <3>1 DEF PeekState, PeekNext, procVars, scanVars, TypeOK, PCs
  <2>15. CASE PeekLevel(c)
    <3>1. k[c] + 1 \in Nat
      BY DEF TypeOK
    <3> QED
      BY <2>15, <3>1 DEF PeekLevel, PeekNext, procVars, scanVars, TypeOK, PCs
  <2>16. CASE YieldLock(c)
    BY <2>16, Firsts DEF YieldLock, Goto, procVars, scanVars, trapVars,
                         Runnable, TypeOK, PCs, ProcPCs, HartInv
  <2>17. CASE Demote(c)
    <3>1. /\ cproc[c] \in Procs /\ queue_level[cproc[c]] \in Levels
      BY <2>17 DEF Demote, Goto, HartInv, ProcPCs, TypeOK
    <3>2. queue_level[cproc[c]] < Last => queue_level[cproc[c]] + 1 \in Levels
      BY <3>1, LevelFacts
    <3> QED
      BY <2>17, <3>2 DEF Demote, Goto, Moved, scanVars, trapVars, TypeOK, PCs
  <2>18. CASE Sleep(c)
    BY <2>18, Firsts DEF Sleep, LeaveCpu, InSyscall, procVars, scanVars,
                         trapVars, Runnable, TypeOK, PCs, ProcPCs, HartInv
  <2>19. CASE Exit(c)
    BY <2>19, Firsts DEF Exit, LeaveCpu, InSyscall, KilledInTick, procVars, scanVars,
                         trapVars, Runnable, TypeOK, PCs, ProcPCs, HartInv
  <2>20. CASE ForkRun(c)
    BY <2>20, Firsts DEF ForkRun, Moved, procVars, scanVars, trapVars,
                         Runnable, TypeOK, PCs, ProcPCs, HartInv
  <2>21. ASSUME NEW p \in Procs, Kill(c, p) PROVE TypeOK'
    BY <2>21, Firsts DEF Kill, InSyscall, Moved, procVars, scanVars,
                         trapVars, Runnable, TypeOK, PCs, ProcPCs, HartInv
  <2>22. ASSUME NEW p \in Procs, ForkAlloc(c, p) PROVE TypeOK'
    BY <2>22, Firsts DEF ForkAlloc, InSyscall, procVars, scanVars, trapVars,
                         Runnable, TypeOK, PCs, ProcPCs, HartInv
  <2>23. ASSUME NEW p \in Procs, Reap(c, p) PROVE TypeOK'
    BY <2>23, Firsts DEF Reap, InSyscall, procVars, scanVars, trapVars,
                         Runnable, TypeOK, PCs, ProcPCs, HartInv
  <2>24. ASSUME NEW p \in Procs, Wakeup(c, p) PROVE TypeOK'
    BY <2>24, Firsts DEF Wakeup, InterruptsOn, Moved, procVars, scanVars,
                         trapVars, Runnable, TypeOK, PCs, ProcPCs, HartInv
  <2> QED
    BY <1>2, <2>1, <2>2, <2>3, <2>4, <2>5, <2>6, <2>7, <2>8, <2>9, <2>10,
             <2>11, <2>12, <2>13, <2>14, <2>15, <2>16, <2>17, <2>18, <2>19,
             <2>20, <2>21, <2>22, <2>23, <2>24
       DEF Scheduler, Timer, Trap, Syscall
<1> QED
  BY <1>1, <1>2 DEF Next

-----------------------------------------------------------------------------
(* The theorems *)

LEMMA InitIInv == Init => IInv
<1> SUFFICES ASSUME Init PROVE IInv
  OBVIOUS
<1>1. TypeOK
  BY Firsts DEF Init, TypeOK, PCs
<1>2. OnCpuInv
  BY Firsts DEF Init, OnCpuInv, HartInv, LockInv, StateInv, ForkInv, OneCpu,
     ProcPCs, LockPCs
<1>3. SliceInv
  BY Firsts, LevelFacts DEF Init, SliceInv, SliceBound, SliceAt
<1>4. WaitInv
  BY Firsts DEF Init, WaitInv
<1>5. ScanInv
  <2>1. \A p \in Procs : ~(p < 1)
    BY DEF Procs
  <2>2. Init => \A c \in CPUs : waiting[c] = {1} /\ pass[c] = 0 /\ idx[c] = 1
                                /\ best_p[c] = NoProc /\ queue_level[1] = 0
    BY Firsts DEF Init
  <2> QED
    BY <2>1, <2>2, Firsts DEF ScanInv, ScanAt
<1>6. PreemptInv
  BY DEF Init, PreemptInv, PreemptAt
<1> QED
  BY <1>1, <1>2, <1>3, <1>4, <1>5, <1>6 DEF IInv

\* The strengthened invariant is inductive: the model stays inside it.
THEOREM Invariance == Spec => []IInv
<1>1. IInv /\ [Next]_vars => IInv'
  BY TypeStep, HartStep, LockStep, StateStep, ForkStep, OneCpuStep, SliceStep,
     WaitStep, ScanStep, PreemptStep DEF IInv, OnCpuInv
<1> QED
  BY InitIInv, <1>1, PTL DEF Spec

\* The process table, the harts' places and every register keep their types.
THEOREM TypeCorrect == Spec => []TypeOK
<1>1. IInv => TypeOK
  BY DEF IInv
<1> QED
  BY Invariance, <1>1, PTL

\* No process is on two harts at once (proc.c:461-467 and every caller of sched).
THEOREM OneCpuAlways == Spec => []OneCpu
<1>1. IInv => OneCpu
  BY DEF IInv, OnCpuInv
<1> QED
  BY Invariance, <1>1, PTL

\* RUNNING means on a hart, and on a hart that has not begun to switch away.
THEOREM RunningAlways == Spec => []RunningIsOnCpu
<1>1. IInv => RunningIsOnCpu
  <2> SUFFICES ASSUME IInv PROVE RunningIsOnCpu
    OBVIOUS
  <2>1. ASSUME NEW p \in Procs, NEW c \in CPUs, cproc[c] = p,
               pc[c] \notin {"demote", "sched"}
        PROVE  state[p] = "RUNNING"
    BY <2>1, Firsts DEF IInv, OnCpuInv, StateInv
  <2> QED
    BY <2>1 DEF RunningIsOnCpu, IInv, OnCpuInv, StateInv
<1> QED
  BY Invariance, <1>1, PTL

\* Process locks are taken one at a time or in ascending slot order.
THEOREM LockOrderAlways == Spec => []LockOrder
<1>1. IInv => LockOrder
  <2> SUFFICES ASSUME IInv PROVE LockOrder
    OBVIOUS
  <2> USE DEF IInv, OnCpuInv
  <2>1. ASSUME NEW c \in CPUs, NEW p \in Procs, plock[p] = c
        PROVE  /\ p = best_p[c] \/ pc[c] \in {"resume", "demote", "sched"}
               /\ pc[c] = "scan" => p < idx[c]
               /\ pc[c] \notin {"run", "boost", "clock", "yield"}
    BY <2>1, Firsts DEF LockInv, LockPCs, HartInv, ScanInv, ScanAt
  <2>2. ASSUME NEW c \in CPUs
        PROVE  Cardinality({p \in Procs : plock[p] = c}) <= 1
    <3>1. {p \in Procs : plock[p] = c} \subseteq {best_p[c]}
      BY DEF LockInv
    <3>2. IsFiniteSet({best_p[c]}) /\ Cardinality({best_p[c]}) = 1
      BY FS_Singleton
    <3>3. Cardinality({p \in Procs : plock[p] = c}) <= Cardinality({best_p[c]})
      BY <3>1, <3>2, FS_Subset
    <3> QED
      BY <3>2, <3>3
  <2> QED
    BY <2>1, <2>2 DEF LockOrder
<1> QED
  BY Invariance, <1>1, PTL

\* The unlocked tick accounting never lets a slice be overrun (trap.c:88-108
\* against trap.c:229-235).
THEOREM SliceBoundAlways == Spec => []SliceBound
<1>1. IInv => SliceBound
  BY DEF IInv, SliceInv
<1> QED
  BY Invariance, <1>1, PTL

\* The scan settles on the best of what has been waiting since it began.
THEOREM ScanPicksBestAlways == Spec => []ScanPicksBest
<1>1. IInv => ScanPicksBest
  <2> SUFFICES ASSUME IInv, NEW c \in CPUs, pc[c] = "scan", idx[c] = N + 1,
                      best_p[c] # NoProc, NEW p \in waiting[c] \ {best_p[c]}
               PROVE  \/ queue_level[best_p[c]] < queue_level[p]
                      \/ queue_level[best_p[c]] = queue_level[p] /\ Before(best_p[c], p)
    BY DEF ScanPicksBest
  <2>1. ScanAt(c) /\ p \in Procs /\ best_p[c] \in Procs
    BY DEF IInv, OnCpuInv, HartInv, ScanInv, TypeOK
  <2>2. p < idx[c]
    BY <2>1, SlotFacts
  <2>3. queue_level[p] \in Levels /\ pass[c] \in Levels
    BY <2>1 DEF IInv, TypeOK
  <2>4. queue_level[p] \in Nat /\ pass[c] \in Nat
    BY <2>3, LevelFacts
  <2> QED
    BY <2>1, <2>2, <2>4 DEF ScanAt
<1> QED
  BY Invariance, <1>1, PTL

\* A process left running at the end of a tick is in no lower queue than what
\* has waited through the tick.
THEOREM PreemptionAlways == Spec => []PreemptionHonoured
<1>1. IInv => PreemptionHonoured
  BY DEF IInv, PreemptInv, PreemptAt, PreemptionHonoured, NoneHigher
<1> QED
  BY Invariance, <1>1, PTL

=============================================================================
