------------------------------- MODULE Bcache -------------------------------
(***************************************************************************)
(* The buffer cache of src/xv6/kernel/bio.c on top of the disk driver      *)
(* (module Virtio), used the way fs.c and log.c use it: bread(), then      *)
(* brelse(), or a change and log_write(), which pins the buffer, or, when  *)
(* the log commits, bwrite() and bunpin().                                 *)
(*                                                                         *)
(* A critical section of bcache.lock is one step.  The sleep-lock of a     *)
(* buffer is what module Mutex says of it (Sleeplock implements that).     *)
(* Which of the buffers that nobody uses is recycled is left open: bget()  *)
(* takes the least recently used, and no property depends on it.           *)
(*                                                                         *)
(* A caller holds one buffer at a time here, so that N + MaxLogged buffers *)
(* are enough for bget(): its panic is not an action.                      *)
(***************************************************************************)
EXTENDS Virtio

CONSTANTS
    MaxLogged,    \* blocks in the log (bounds what is pinned)
    Writers,      \* the processes that may change blocks
    Killable      \* the processes that may be killed

ASSUME BcacheAssumption ==
    /\ MaxLogged \in Nat /\ Cardinality(Bufs) >= N + MaxLogged
    /\ 0 \notin Bufs /\ NoBlock \notin Blocks
    /\ Writers \subseteq Procs /\ Killable \subseteq Procs

VARIABLES
    valid, refcnt,    \* struct buf: b->valid, b->refcnt
    owner,            \* who holds b->lock, 0 for none
    op,               \* what p uses the buffer for
    logged,           \* the blocks in log.lh, pinned by log_write()
    latest            \* history: the last contents a call gave each block

ioVars    == <<sleepVars, blockno, data, busy, vdisk_lock, free, info, pc, buf,
               writing, idx, disk, avail, used, isr>>
cacheVars == <<valid, refcnt, owner>>
useVars   == <<op, logged, latest>>
vars      == <<ioVars, cacheVars, useVars>>

\* every variable has the type the code gives it, and the log its bound
TypeOK ==
    /\ VirtioTypeOK
    /\ pc \in [Procs -> {"idle", "lock", "rw", "iosleep", "descsleep", "io",
                         "held", "written", "drop", "rel"}]
    /\ valid \in [Bufs -> BOOLEAN] /\ refcnt \in [Bufs -> Nat]
    /\ owner \in [Bufs -> 0..N]
    /\ op \in [Procs -> {"read", "write", "install"}]
    /\ logged \subseteq Blocks /\ Cardinality(logged) <= MaxLogged
    /\ latest \in [Blocks -> Vals]

\* binit(): no buffer is in use
Init ==
    /\ VirtioInit
    /\ valid = [b \in Bufs |-> FALSE] /\ refcnt = [b \in Bufs |-> 0]
    /\ owner = [b \in Bufs |-> 0]
    /\ op = [p \in Procs |-> "read"]
    /\ logged = {} /\ latest = disk

-----------------------------------------------------------------------------
(* bget(), bread()                                                          *)

Running(o) == {q \in Procs : pc[q] # "idle" /\ op[q] = o}

\* fs.c reads at any time, and writes inside a transaction, which begin_op()
\* starts when the log has room for what it may write; the log installs a
\* logged block when no transaction is open (module Log)
Uses(p, o, k) ==
    \/ o = "read"
    \/ /\ o = "write" /\ p \in Writers /\ Running("install") = {}
       /\ LET changing == {blockno[buf[q]] : q \in Running("write")}
          IN  Cardinality(logged \cup changing \cup {k}) <= MaxLogged
    \/ o = "install" /\ k \in logged /\ Running("write") \cup Running("install") = {}

Enter(p, o, b) ==
    /\ Goto(p, "idle", "lock")
    /\ op' = [op EXCEPT ![p] = o] /\ buf' = [buf EXCEPT ![p] = b]
    /\ UNCHANGED <<sleepVars, data, busy, vdisk_lock, free, info, writing, idx,
                   disk, avail, used, isr, owner, logged, latest>>

\* the block is cached
BgetHit(p, o, k) ==
    \E b \in Bufs :
        /\ blockno[b] = k
        /\ Enter(p, o, b)
        /\ refcnt' = [refcnt EXCEPT ![b] = @ + 1]
        /\ UNCHANGED <<blockno, valid>>

\* it is not: recycle a buffer that nobody uses or waits for
RecycleLoading(p, o, k, b, ok) ==  \* seeded fault: only valid buffers are found
    /\ \A c \in Bufs : blockno[c] # k \/ ~valid[c]
    /\ Enter(p, o, b)
    /\ blockno' = [blockno EXCEPT ![b] = k]
    /\ valid' = [valid EXCEPT ![b] = ok]
    /\ refcnt' = [refcnt EXCEPT ![b] = 1]

Recycle(p, o, k, b, ok) ==
    /\ \A c \in Bufs : blockno[c] # k
    /\ Enter(p, o, b)
    /\ blockno' = [blockno EXCEPT ![b] = k]
    /\ valid' = [valid EXCEPT ![b] = ok]
    /\ refcnt' = [refcnt EXCEPT ![b] = 1]

BgetMiss(p, o, k) ==
    \E b \in Bufs : refcnt[b] = 0 /\ Recycle(p, o, k, b, FALSE)

\* acquiresleep(&b->lock), and whether bread() has to read the disk
bread(p) ==
    LET b == buf[p]
    IN  /\ Goto(p, "lock", IF valid[b] THEN "held" ELSE "rw")
        /\ owner[b] = 0 /\ owner' = [owner EXCEPT ![b] = p]
        /\ writing' = [writing EXCEPT ![p] = FALSE]
        /\ UNCHANGED <<sleepVars, blockno, data, busy, vdisk_lock, free, info,
                       buf, idx, disk, avail, used, isr, valid, refcnt,
                       useVars>>

\* virtio_disk_rw() returns to bread(), or to bwrite()
BreadDone(p) ==
    /\ ~writing[p] /\ IoDone(p, "held")
    /\ valid' = [valid EXCEPT ![buf[p]] = TRUE]
    /\ UNCHANGED <<refcnt, owner, useVars>>

BwriteDone(p) == writing[p] /\ IoDone(p, "written") /\ UNCHANGED <<cacheVars, useVars>>

-----------------------------------------------------------------------------
(* What the holder does                                                     *)

\* change the contents and log_write(): a block new to the log is pinned
log_writeUnpinned(p) ==  \* seeded fault: no bpin()
    LET b == buf[p]
    IN  /\ op[p] = "write" /\ Goto(p, "held", "drop")
        /\ logged' = logged \cup {blockno[b]}
        /\ \E v \in Vals : /\ data' = [data EXCEPT ![b] = v]
                           /\ latest' = [latest EXCEPT ![blockno[b]] = v]
        /\ UNCHANGED <<sleepVars, blockno, driverVars, vdisk_lock, buf, writing,
                       disk, avail, used, isr, cacheVars, op>>

log_write(p) ==
    LET b == buf[p]
    IN  /\ op[p] = "write" /\ Goto(p, "held", "drop")
        /\ logged' = logged \cup {blockno[b]}
        /\ refcnt' = [refcnt EXCEPT ![b] = IF blockno[b] \in logged THEN @ ELSE @ + 1]
        /\ \E v \in Vals : /\ data' = [data EXCEPT ![b] = v]
                           /\ latest' = [latest EXCEPT ![blockno[b]] = v]
        /\ UNCHANGED <<sleepVars, blockno, driverVars, vdisk_lock, buf, writing,
                       disk, avail, used, isr, valid, owner, op>>

\* install_trans(): bwrite(dbuf), and when it is done bunpin(dbuf)
bwrite(p) ==
    /\ op[p] = "install" /\ Goto(p, "held", "rw")
    /\ writing' = [writing EXCEPT ![p] = TRUE]
    /\ UNCHANGED <<sleepVars, blockno, data, driverVars, vdisk_lock, buf, disk,
                   avail, used, isr, cacheVars, useVars>>

bunpin(p) ==
    /\ Goto(p, "written", "drop")
    /\ logged' = logged \ {blockno[buf[p]]}
    /\ refcnt' = [refcnt EXCEPT ![buf[p]] = @ - 1]
    /\ UNCHANGED <<sleepVars, blockno, data, driverVars, vdisk_lock, buf, writing,
                   disk, avail, used, isr, valid, owner, op, latest>>

\* brelse(): releasesleep() ...
brelse(p) ==
    /\ \/ op[p] = "read" /\ Goto(p, "held", "rel")
       \/ Goto(p, "drop", "rel")
    /\ owner' = [owner EXCEPT ![buf[p]] = 0]
    /\ UNCHANGED <<sleepVars, blockno, data, driverVars, vdisk_lock, buf, writing,
                   disk, avail, used, isr, valid, refcnt, useVars>>

\* ... and then the reference
Unref(p) ==
    LET b == buf[p]
    IN  /\ Goto(p, "rel", "idle")
        /\ refcnt' = [refcnt EXCEPT ![b] = @ - 1]
        /\ buf' = [buf EXCEPT ![p] = 0]
        /\ op' = [op EXCEPT ![p] = "read"]
        /\ UNCHANGED <<sleepVars, blockno, data, driverVars, vdisk_lock, writing,
                       disk, avail, used, isr, valid, owner, logged, latest>>

\* kkill() of a process that waits for the disk; elsewhere it only sets killed
Kill(p) ==
    /\ p \in Killable /\ state[p] = "SLEEPING"
    /\ kkill(p)
    /\ UNCHANGED <<blockno, data, driverVars, vdisk_lock, pc, buf, writing, disk,
                   avail, used, isr, cacheVars, useVars>>

-----------------------------------------------------------------------------
Bget(p) ==
    \E o \in {"read", "write", "install"}, k \in Blocks :
        Uses(p, o, k) /\ (BgetHit(p, o, k) \/ BgetMiss(p, o, k))

Disk(p) ==
    /\ Submit(p) \/ DescWait(p) \/ IoSleep(p) \/ IoAgain(p)
    /\ UNCHANGED <<cacheVars, useVars>>

Step(p) ==
    \/ Bget(p) \/ bread(p) \/ Disk(p) \/ BreadDone(p) \/ BwriteDone(p)
    \/ log_write(p) \/ bwrite(p) \/ bunpin(p) \/ brelse(p) \/ Unref(p) \/ Kill(p)

Device == (Complete \/ virtio_disk_intr) /\ UNCHANGED <<cacheVars, useVars>>

Next == Device \/ \E p \in Procs : Step(p)

Spec == Init /\ [][Next]_vars
-----------------------------------------------------------------------------
Waits(p) == pc[p] \in {"iosleep", "io"}
Holds(p) == Waits(p) \/ pc[p] \in {"rw", "descsleep", "held", "written", "drop"}

\* No block is in two buffers, whoever recycles what while others wait for
\* the sleep-lock of the buffer they found (bio.c:54-88).
OneBuffer == \A b, c \in Bufs : blockno[b] = blockno[c] /\ b # c => blockno[b] = NoBlock

\* What bread() returns is what was last written to the block, whether it
\* came from the cache or from the disk, and although logged blocks go to
\* their place on disk only later: the reason log_write() pins (log.c:239).
ReadsLatest ==
    \A p \in Procs : pc[p] \in {"held", "written", "drop"} =>
        owner[buf[p]] = p /\ data[buf[p]] = latest[blockno[buf[p]]]

\* b->refcnt counts exactly the calls that use or wait for b and the pin of
\* the log, and a buffer in use stays the same block's (bio.c:67, 81, 125).
RefExact ==
    \A b \in Bufs :
        refcnt[b] = Cardinality({p \in Procs : buf[p] = b})
                    + (IF blockno[b] \in logged THEN 1 ELSE 0)

\* What bget() and brelse() keep of the table of buffers: one buffer for a
\* block, and none recycled that somebody uses or waits for.
Inv == TypeOK /\ OneBuffer /\ RefExact

\* A request the device may still work on belongs to a process that waits for
\* it and holds the buffer's sleep-lock; its descriptors are not free: the
\* device never writes into a buffer that was given to another block, and
\* virtio_disk_intr() never meets a request without a buffer.
DeviceOwnsBuffer ==
    \A id \in Descs :
        (\E r \in avail : r.id = id) \/ (\E i \in DOMAIN used : used[i] = id) =>
            \E p \in Procs :
                /\ Waits(p) /\ id \in idx[p] /\ idx[p] \cap free = {}
                /\ info[id] = buf[p] /\ busy[buf[p]] /\ owner[buf[p]] = p
                /\ \A r \in avail : r.id = id => r.b = buf[p] /\ r.blk = blockno[buf[p]]

\* Nobody sleeps on a finished request, or for descriptors that are free: the
\* sleeper's request is with the device, or in the used ring with an interrupt
\* pending or its handler running; too few descriptors are free for the other.
NoLostCompletion ==
    /\ used # <<>> => isr \/ vdisk_lock
    /\ \A p \in Procs : state[p] = "SLEEPING" =>
        \/ /\ pc[p] = "io" /\ busy[buf[p]]
           /\ \/ \E r \in avail : r.b = buf[p]
              \/ \E i \in DOMAIN used : info[used[i]] = buf[p]
        \/ pc[p] = "rw" /\ Cardinality(free) < 3
=============================================================================
