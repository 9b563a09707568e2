-------------------------------- MODULE Log --------------------------------
(***************************************************************************)
(* The redo log of src/xv6/kernel/log.c: begin_op(), log_write(), end_op() *)
(* with the group commit, sys_sync(), and recovery after a crash at any    *)
(* point, also during recovery.                                            *)
(*                                                                         *)
(* The disk is the home blocks, the log blocks and the log header; a block *)
(* is written in one step and in program order, since bwrite() waits for   *)
(* the device.  In memory there are the cached blocks (one that is logged  *)
(* is pinned, so the cache is where calls read) and struct log.  log.lock  *)
(* is explicit where it is held over a wakeup(); a critical section that   *)
(* only looks at struct log and registers a sleeper is one step.           *)
(***************************************************************************)
EXTENDS SleepWakeup, Sequences

CONSTANTS
    Blocks, Vals,
    LOGBLOCKS, MAXOPBLOCKS,
    OpBlocks,     \* the blocks that one system call logs at most, each any
                  \* number of times
    CanCrash,
    Killable      \* the processes that may be killed

ASSUME LogAssumption == /\ MAXOPBLOCKS \in Nat \ {0}
                        /\ LOGBLOCKS \in Nat /\ MAXOPBLOCKS <= LOGBLOCKS
                        /\ OpBlocks \in 0..MAXOPBLOCKS
                        /\ CanCrash \in BOOLEAN /\ Killable \subseteq Procs

VARIABLES
    home, logdisk, head,    \* the disk; head is the header's block numbers
    cache,                  \* the data of the cached blocks
    block,                  \* log.lh: its first n block numbers
    outstanding, committing,
    lock,                   \* the process that holds log.lock, or 0
    rec,                    \* recovery: head, install, or up when it is done
    tail,                   \* the loop variable of write_log, install_trans
    pc,
    mine,                   \* by process: the blocks its call has logged
    due,                    \* sys_sync(): log.ncommit >= n
    unsaved, owed           \* history: whose ended calls are not committed,
                            \* now and when each sys_sync() began

diskVars  == <<home, logdisk, head>>
logVars   == <<block, outstanding, committing>>
ghostVars == <<unsaved, owed>>
vars == <<sleepVars, diskVars, cache, logVars, lock, rec, tail, pc, mine, due,
          ghostVars>>

LogChan == <<"log">>
n == Len(block)
PCs == {"idle", "sleep", "asleep", "op", "endwake", "wlog", "install", "done",
        "ssleep", "sasleep", "synced"}

TypeOK ==
    /\ state \in [Procs -> {"RUNNABLE", "SLEEPING"}]
    /\ chan \in [Procs -> {NoChan, LogChan}]
    /\ killed \in [Procs -> BOOLEAN]
    /\ scan \in [Procs -> 1..(N + 1)]
    /\ home \in [Blocks -> Vals] /\ cache \in [Blocks -> Vals]
    /\ logdisk \in [1..LOGBLOCKS -> Vals]
    /\ head \in Seq(Blocks) /\ block \in Seq(Blocks) /\ n <= LOGBLOCKS
    /\ outstanding = Cardinality({p \in Procs : pc[p] = "op"})
    /\ committing \in BOOLEAN
    /\ lock \in 0..N
    /\ rec \in {"head", "install", "up"}
    /\ tail \in 1..(LOGBLOCKS + 1)
    /\ pc \in [Procs -> PCs]
    /\ mine \in [Procs -> SUBSET Blocks]
    /\ due \in [Procs -> BOOLEAN]
    /\ unsaved \subseteq Procs /\ owed \in [Procs -> SUBSET Procs]

\* memory after power-on: struct log is zero, nobody runs but the process that
\* is in fsinit()
Boot ==
    /\ state' = [p \in Procs |-> "RUNNABLE"]
    /\ chan' = [p \in Procs |-> NoChan]
    /\ killed' = [p \in Procs |-> FALSE]
    /\ scan' = [p \in Procs |-> N + 1]
    /\ cache' = home
    /\ block' = <<>> /\ outstanding' = 0 /\ committing' = FALSE
    /\ lock' = 0 /\ tail' = 1 /\ rec' = "head"
    /\ pc' = [p \in Procs |-> "idle"]
    /\ mine' = [p \in Procs |-> {}]
    /\ due' = [p \in Procs |-> FALSE]
    /\ unsaved' = {} /\ owed' = [p \in Procs |-> {}]

\* a disk as mkfs leaves it: the log is empty
Init ==
    /\ \E v \in Vals : /\ home = [b \in Blocks |-> v]
                       /\ logdisk = [i \in 1..LOGBLOCKS |-> v]
    /\ head = <<>>
    /\ state = [p \in Procs |-> "RUNNABLE"]
    /\ chan = [p \in Procs |-> NoChan]
    /\ killed = [p \in Procs |-> FALSE]
    /\ scan = [p \in Procs |-> N + 1]
    /\ cache = home
    /\ block = <<>> /\ outstanding = 0 /\ committing = FALSE
    /\ lock = 0 /\ tail = 1 /\ rec = "head"
    /\ pc = [p \in Procs |-> "idle"]
    /\ mine = [p \in Procs |-> {}]
    /\ due = [p \in Procs |-> FALSE]
    /\ unsaved = {} /\ owed = [p \in Procs |-> {}]

Goto(p, from, to) == pc[p] = from /\ pc' = [pc EXCEPT ![p] = to]

\* sleep() has returned
Returned(p, from) == pc[p] = from /\ state[p] = "RUNNABLE"

-----------------------------------------------------------------------------
(* recover_from_log() *)

ReadHead ==
    /\ rec = "head" /\ rec' = "install"
    /\ block' = head /\ tail' = 1
    /\ UNCHANGED <<sleepVars, diskVars, cache, outstanding, committing, lock, pc, mine, due, ghostVars>>

\* install_trans(1), one block
RecoverBlock ==
    /\ rec = "install" /\ tail <= n
    /\ home' = [home EXCEPT ![block[tail]] = logdisk[tail]]
    /\ tail' = tail + 1
    /\ UNCHANGED <<sleepVars, logdisk, head, cache, logVars, lock, rec, pc, mine, due, ghostVars>>

\* log.lh.n = 0; write_head().  What is read from now on is the disk.
RecoverDone ==
    /\ rec = "install" /\ tail > n /\ rec' = "up"
    /\ block' = <<>> /\ head' = <<>> /\ cache' = home /\ tail' = 1
    /\ UNCHANGED <<sleepVars, home, logdisk, outstanding, committing, lock, pc, mine, due, ghostVars>>

Recovery == ReadHead \/ RecoverBlock \/ RecoverDone

-----------------------------------------------------------------------------
(* begin_op() *)

NoSpaceWithoutIt ==  \* seeded fault: the call that begins needs no space
    n + outstanding * MAXOPBLOCKS > LOGBLOCKS

NoSpace == n + (outstanding + 1) * MAXOPBLOCKS > LOGBLOCKS

begin_op(p) ==
    /\ rec = "up" /\ lock = 0
    /\ pc[p] = "idle" \/ Returned(p, "asleep")
    /\ ~committing /\ ~NoSpace
    /\ outstanding' = outstanding + 1
    /\ pc' = [pc EXCEPT ![p] = "op"]
    /\ UNCHANGED <<sleepVars, diskVars, cache, block, committing, lock, rec, tail, mine, due, ghostVars>>

BeginWaits(p) ==
    /\ rec = "up" /\ lock = 0
    /\ pc[p] = "idle" \/ Returned(p, "asleep")
    /\ committing \/ NoSpace
    /\ sleep_prepare(p, LogChan)
    /\ pc' = [pc EXCEPT ![p] = "sleep"]
    /\ UNCHANGED <<diskVars, cache, logVars, lock, rec, tail, mine, due, ghostVars>>

Sleep(p) ==
    /\ Goto(p, "sleep", "asleep") \/ Goto(p, "ssleep", "sasleep")
    /\ sleep(p)
    /\ UNCHANGED <<diskVars, cache, logVars, lock, rec, tail, mine, due, ghostVars>>

-----------------------------------------------------------------------------
(* A system call changes a block and calls log_write() *)

Logged(b) == \E i \in 1..n : block[i] = b

log_write(p, b, v) ==
    /\ pc[p] = "op" /\ lock = 0
    /\ Cardinality(mine[p] \cup {b}) <= OpBlocks /\ n < LOGBLOCKS
    /\ cache' = [cache EXCEPT ![b] = v]
    /\ block' = IF Logged(b) THEN block ELSE Append(block, b)    \* absorption
    /\ mine' = [mine EXCEPT ![p] = @ \cup {b}]
    /\ UNCHANGED <<sleepVars, diskVars, outstanding, committing, lock, rec, tail, pc, due, ghostVars>>

\* panic("too big a transaction"): the log is full, whether or not b is in it.  The
\* process keeps log.lock for ever, and the lock of the buffer it has changed.
TooBig(p, b) ==
    /\ pc[p] = "op" /\ lock = 0
    /\ Cardinality(mine[p] \cup {b}) <= OpBlocks /\ n >= LOGBLOCKS
    /\ lock' = p
    /\ UNCHANGED <<sleepVars, diskVars, cache, logVars, rec, tail, pc, mine, due, ghostVars>>

-----------------------------------------------------------------------------
(* end_op() and commit() *)

\* log.outstanding -= 1, not the last call: the call of wakeup(&log)
EndSilently(p) ==  \* seeded fault: space is given back without a wakeup
    /\ Goto(p, "op", "idle") /\ lock = 0 /\ outstanding > 1
    /\ outstanding' = outstanding - 1
    /\ mine' = [mine EXCEPT ![p] = {}]
    /\ unsaved' = IF mine[p] = {} THEN unsaved ELSE unsaved \cup {p}
    /\ UNCHANGED <<sleepVars, diskVars, cache, block, committing, lock, rec, tail, due, owed>>

EndOther(p) ==
    /\ Goto(p, "op", "endwake") /\ lock = 0 /\ outstanding > 1
    /\ outstanding' = outstanding - 1
    /\ lock' = p /\ WakeupCall(p)
    /\ mine' = [mine EXCEPT ![p] = {}]
    /\ unsaved' = IF mine[p] = {} THEN unsaved ELSE unsaved \cup {p}
    /\ UNCHANGED <<state, chan, killed, diskVars, cache, block, committing, rec, tail, due, owed>>

\* the last call: it commits
EndLast(p) ==
    /\ Goto(p, "op", IF n > 0 THEN "wlog" ELSE "done")
    /\ lock = 0 /\ outstanding = 1
    /\ outstanding' = 0 /\ committing' = TRUE /\ tail' = 1
    /\ mine' = [mine EXCEPT ![p] = {}]
    /\ unsaved' = IF mine[p] = {} THEN unsaved ELSE unsaved \cup {p}
    /\ UNCHANGED <<sleepVars, diskVars, cache, block, lock, rec, due, owed>>

\* write_log(), one block
WriteLog(p) ==
    /\ pc[p] = "wlog" /\ tail <= n
    /\ logdisk' = [logdisk EXCEPT ![tail] = cache[block[tail]]]
    /\ tail' = tail + 1
    /\ UNCHANGED <<sleepVars, home, head, cache, logVars, lock, rec, pc, mine, due, ghostVars>>

WriteHeadFirst(p) ==  \* seeded fault: the header goes out before the blocks
    /\ pc[p] = "wlog" /\ (tail > n \/ (tail = 1 /\ head = <<>>))
    /\ head' = block
    /\ IF tail > n THEN tail' = 1 /\ pc' = [pc EXCEPT ![p] = "install"]
       ELSE UNCHANGED <<tail, pc>>
    /\ unsaved' = {} /\ owed' = [q \in Procs |-> {}]
    /\ UNCHANGED <<sleepVars, home, logdisk, cache, logVars, lock, rec, mine, due>>

\* write_head(): the real commit
WriteHead(p) ==
    /\ Goto(p, "wlog", "install") /\ tail > n
    /\ head' = block /\ tail' = 1
    /\ unsaved' = {} /\ owed' = [q \in Procs |-> {}]
    /\ UNCHANGED <<sleepVars, home, logdisk, cache, logVars, lock, rec, mine, due>>

\* install_trans(0), one block
Install(p) ==
    /\ pc[p] = "install" /\ tail <= n
    /\ home' = [home EXCEPT ![block[tail]] = logdisk[tail]]
    /\ cache' = [cache EXCEPT ![block[tail]] = logdisk[tail]]
    /\ tail' = tail + 1
    /\ UNCHANGED <<sleepVars, logdisk, head, logVars, lock, rec, pc, mine, due, ghostVars>>

\* log.lh.n = 0; write_head()
Erase(p) ==
    /\ Goto(p, "install", "done") /\ tail > n
    /\ block' = <<>> /\ head' = <<>>
    /\ UNCHANGED <<sleepVars, home, logdisk, cache, outstanding, committing, lock, rec, tail, mine, due, ghostVars>>

\* log.committing = 0; log.ncommit += 1; the call of wakeup(&log)
CommitDone(p) ==
    /\ Goto(p, "done", "endwake") /\ lock = 0
    /\ committing' = FALSE /\ tail' = 1
    /\ due' = [q \in Procs |-> TRUE]
    /\ lock' = p /\ WakeupCall(p)
    /\ UNCHANGED <<state, chan, killed, diskVars, cache, block, outstanding, rec, mine, ghostVars>>

EndWake(p) ==
    /\ pc[p] = "endwake"
    /\ wakeup(p, LogChan)
    /\ UNCHANGED <<diskVars, cache, logVars, lock, rec, tail, pc, mine, due, ghostVars>>

EndDone(p) ==
    /\ Goto(p, "endwake", "idle")
    /\ WakeupDone(p) /\ lock' = 0
    /\ UNCHANGED <<sleepVars, diskVars, cache, logVars, rec, tail, mine, due, ghostVars>>

end_op(p) == \/ EndOther(p) \/ EndLast(p) \/ WriteLog(p) \/ WriteHead(p)
             \/ Install(p) \/ Erase(p) \/ CommitDone(p) \/ EndWake(p)
             \/ EndDone(p)

-----------------------------------------------------------------------------
(* sys_sync() *)

SyncNowIfIdle(p) ==  \* seeded fault: calls in progress are not waited for
    /\ Goto(p, "idle", "synced")
    /\ rec = "up" /\ lock = 0 /\ ~committing
    /\ owed' = [owed EXCEPT ![p] = unsaved]
    /\ UNCHANGED <<sleepVars, diskVars, cache, logVars, lock, rec, tail, mine, due, unsaved>>

\* nothing to wait for
SyncNow(p) ==
    /\ Goto(p, "idle", "synced")
    /\ rec = "up" /\ lock = 0 /\ ~committing /\ outstanding = 0
    /\ owed' = [owed EXCEPT ![p] = unsaved]
    /\ UNCHANGED <<sleepVars, diskVars, cache, logVars, lock, rec, tail, mine, due, unsaved>>

\* n = log.ncommit + 1, and the first wait
SyncWaits(p) ==
    /\ Goto(p, "idle", "ssleep")
    /\ rec = "up" /\ lock = 0 /\ (committing \/ outstanding > 0)
    /\ due' = [due EXCEPT ![p] = FALSE]
    /\ owed' = [owed EXCEPT ![p] = unsaved]
    /\ sleep_prepare(p, LogChan)
    /\ UNCHANGED <<diskVars, cache, logVars, lock, rec, tail, mine, unsaved>>

SyncAgain(p) ==
    /\ Returned(p, "sasleep") /\ Goto(p, "sasleep", "ssleep")
    /\ lock = 0 /\ ~due[p]
    /\ sleep_prepare(p, LogChan)
    /\ UNCHANGED <<diskVars, cache, logVars, lock, rec, tail, mine, due, ghostVars>>

SyncDone(p) ==
    /\ Returned(p, "sasleep") /\ Goto(p, "sasleep", "synced")
    /\ lock = 0 /\ due[p]
    /\ UNCHANGED <<sleepVars, diskVars, cache, logVars, lock, rec, tail, mine, due, ghostVars>>

SyncReturn(p) ==
    /\ Goto(p, "synced", "idle")
    /\ due' = [due EXCEPT ![p] = FALSE] /\ owed' = [owed EXCEPT ![p] = {}]
    /\ UNCHANGED <<sleepVars, diskVars, cache, logVars, lock, rec, tail, mine, unsaved>>

sys_sync(p) == SyncNow(p) \/ SyncWaits(p) \/ SyncAgain(p) \/ SyncDone(p)
               \/ SyncReturn(p)

-----------------------------------------------------------------------------

Crash == CanCrash /\ Boot /\ UNCHANGED diskVars

Kill(p) ==
    /\ p \in Killable /\ rec = "up"
    /\ kkill(p)
    /\ UNCHANGED <<diskVars, cache, logVars, lock, rec, tail, pc, mine, due, ghostVars>>

Step(p) == begin_op(p) \/ BeginWaits(p) \/ Sleep(p) \/ end_op(p) \/ sys_sync(p)

Next == \/ \E p \in Procs : Step(p) \/ Kill(p)
        \/ \E p \in Procs, b \in Blocks, v \in Vals : log_write(p, b, v)
        \/ \E p \in Procs, b \in Blocks : TooBig(p, b)
        \/ Recovery \/ Crash

Spec == Init /\ [][Next]_vars

-----------------------------------------------------------------------------
(* Properties *)

\* the process stays in its call and holds log.lock
Panicked(p) == pc[p] = "op" /\ lock = p

\* log_write() panics on no call that has blocks left of its MAXOPBLOCKS, however
\* many run at once and whatever else is logged meanwhile.  A call that has logged
\* that many is not safe: a full log is refused even for a block that is in it
\* (log.c:229 comes before the absorption).
NeverTooBig == \A p \in Procs :
    Panicked(p) => Cardinality(mine[p]) = MAXOPBLOCKS

\* end_op() never finds log.committing set, log_write() never changes a block
\* that a commit is copying.
NoCallInCommit == \A p \in Procs : pc[p] = "op" => ~committing

\* No wakeup is lost: whoever sleeps in begin_op() has a commit or a lack of
\* space to wait for, and whoever sleeps in sys_sync() a commit; else the
\* wakeup(&log) of an end_op() is on its way.
Coming(p) == \E w \in Procs : pc[w] = "endwake" /\ scan[w] <= p
BeginAwake == \A p \in Procs : pc[p] = "asleep" /\ state[p] = "SLEEPING" =>
                committing \/ (NoSpace /\ outstanding > 0) \/ Coming(p)
SyncAwake  == \A p \in Procs : pc[p] = "sasleep" /\ state[p] = "SLEEPING" =>
                (~due[p] /\ (committing \/ outstanding > 0)) \/ Coming(p)
LogAwake == BeginAwake /\ SyncAwake

\* When sync() returns, every call that had ended when it was called is on disk.
SyncDurable == \A p \in Procs : pc[p] = "synced" => owed[p] = {}

\* What begin_op() promises the calls it lets in, and log_write() relies on: room
\* for the blocks it reserves, and no commit while they run.
Inv == TypeOK /\ NoCallInCommit /\ NeverTooBig

\* what recovery would make of the disk as it is
Recovered == [b \in Blocks |->
    IF \E i \in 1..Len(head) : head[i] = b
    THEN logdisk[CHOOSE i \in 1..Len(head) : head[i] = b] ELSE home[b]]

D == INSTANCE AtomicDisk WITH
        Calls <- Procs,
        mem <- IF rec = "up" THEN cache ELSE Recovered,
        stable <- Recovered,
        active <- {p \in Procs : pc[p] = "op"}

\* Calls that overlap reach the disk together or not at all, at whatever step a
\* crash comes and however often recovery is itself cut short.
IsAtomicDisk == D!Spec
=============================================================================
